---- MODULE Spec2Model ----
(***************************************************************************)
(* memfw: detection pipeline (Layer 1 triage, Layer 2 similarity, Layer 3  *)
(* judge, decision fusion), agent-as-judge protocol, behavioural baseline, *)
(* ingress tagger and quarantine store.                                    *)
(*                                                                         *)
(* Scores, similarities, confidences and thresholds are fixed-point        *)
(* numbers in thousandths: 1000 stands for 1.0, 750 for 0.75.              *)
(***************************************************************************)
EXTENDS Integers, Sequences, FiniteSets, TLC

VARIABLES
    quarantine,   \* QuarantineStore table: id -> row
    nextId,       \* next fresh uuid handed out by uuidv4()
    clock,        \* wall clock read by new Date()
    ret,          \* the last call and what it returned
    config,       \* Detector constructor options
    result,       \* the DetectionResult the caller holds
    baseline,     \* the tagger's BaselineTracker
    provenance,   \* ProvenanceStore table, in insertion order
    args,         \* arguments of the call under way
    initialized,  \* Detector.initialized: the exemplar embeddings are loaded
    memories,     \* MemoryStore table, in insertion order
    exemplarEmbeddings,  \* Detector.exemplarEmbeddings: the call whose load
                         \* filled it, NULL for the constructor's empty array
    db,           \* the BaselineTracker's database tables
    pc            \* where each call under way is suspended

storeVars == <<quarantine, nextId, clock>>
judgeVars == <<config, result, initialized, exemplarEmbeddings>>
tagVars == <<baseline, provenance, args, memories, db, pc>>
vars == <<quarantine, nextId, clock, ret, config, result, baseline, provenance,
          args, initialized, memories, exemplarEmbeddings, db, pc>>

----------------------------------------------------------------------------
(* Bounds *)

MaxRecords == 2     \* uuids the quarantine store hands out in a run
MaxClock == 2       \* days of the wall clock, 1..MaxClock
MaxMemories == 13   \* submissions a baseline database counts in a run

----------------------------------------------------------------------------
(* Small input sets *)

NULL == "null"

TrustLevel == {"user", "tool_verified", "tool_unverified", "agent", "external"}

\* Submitted texts: plain text on a familiar topic, plain text on an unfamiliar
\* topic, and an instruction with a link that matches many Layer 1 patterns.
Texts == {"clean", "note", "attack"}

Sources == {"user", "web_scrape"}

Reviewers == {NULL, "alice"}

QuarantineStatus == {"pending", "approved", "rejected"}

\* layer1Matches.length of the submitted text: no match, one match, and enough
\* matches for 0.5 + 0.1 per match to pass 1.0.
L1Counts == {0, 1, 6}

\* Best cosine similarities: negative, below every band, inside the band of
\* some trust levels and above the threshold of others, above every threshold.
Sims == {0 - 200, 600, 700, 800, 950}

\* Confidences a judge reports.
Confidences == {500, 900}

NoCall == [op |-> "none", id |-> 0, val |-> FALSE]

\* The calls that can be suspended at an await; none is under way.
Calls == {"detect1", "detect2"}
Idle == [p \in Calls \cup {"recordMemory"} |-> "idle"]

NoArgs == [layer2Similarity |-> 0, layer2Threshold |-> 0, layer3Verdict |-> NULL]

----------------------------------------------------------------------------
(* QuarantineStore *)

\* The row inserted by add(): status 'pending', no review columns.
NewRow(text, now) ==
    [text |-> text, quarantined_at |-> now, status |-> "pending",
     reviewed_at |-> 0, reviewed_by |-> NULL]   \* reviewed_at 0: NULL

\* add() merging a resubmitted text into the row that already holds it.
addMerging(table, id, text, now) ==
    IF \E i \in DOMAIN table : table[i].text = text
    THEN table
    ELSE table @@ (id :> NewRow(text, now))

\* QuarantineStore.add: the table after the INSERT under the fresh id.
add(table, id, text, now) == table @@ (id :> NewRow(text, now))

\* add(options): INSERT with a fresh uuid.
Add(text) ==
    /\ nextId <= MaxRecords
    /\ quarantine' = add(quarantine, nextId, text, clock)
    /\ nextId' = nextId + 1
    /\ ret' = [op |-> "add", id |-> nextId, val |-> TRUE]
    /\ UNCHANGED <<clock, judgeVars, tagVars>>

\* UPDATE quarantine SET status, reviewed_at, reviewed_by WHERE id = ?
\* The WHERE clause names the id only.
updateStatus(table, id, status, reviewedBy, now) ==
    IF id \in DOMAIN table
    THEN [table EXCEPT ![id].status = status,
                       ![id].reviewed_at = now,
                       ![id].reviewed_by = reviewedBy]
    ELSE table

\* result.changes > 0
updateStatusChanges(table, id) == IF id \in DOMAIN table THEN 1 ELSE 0

Approve(id, reviewedBy) ==
    /\ quarantine' = updateStatus(quarantine, id, "approved", reviewedBy, clock)
    /\ ret' = [op |-> "approve", id |-> id,
               val |-> (updateStatusChanges(quarantine, id) > 0)]
    /\ UNCHANGED <<nextId, clock, judgeVars, tagVars>>

Reject(id, reviewedBy) ==
    /\ quarantine' = updateStatus(quarantine, id, "rejected", reviewedBy, clock)
    /\ ret' = [op |-> "reject", id |-> id,
               val |-> (updateStatusChanges(quarantine, id) > 0)]
    /\ UNCHANGED <<nextId, clock, judgeVars, tagVars>>

\* DELETE FROM quarantine WHERE id = ?
Delete(id) ==
    /\ quarantine' = [i \in DOMAIN quarantine \ {id} |-> quarantine[i]]
    /\ ret' = [op |-> "delete", id |-> id, val |-> (id \in DOMAIN quarantine)]
    /\ UNCHANGED <<nextId, clock, judgeVars, tagVars>>

\* getCounts with the rejected group left at its initial 0.
getCountsDropsRejected(table) ==
    [s \in QuarantineStatus |->
        IF s = "rejected" THEN 0
        ELSE Cardinality({i \in DOMAIN table : table[i].status = s})]

\* SELECT status, COUNT(*) ... GROUP BY status, folded into the three keys.
getCounts(table) ==
    [s \in QuarantineStatus |->
        Cardinality({i \in DOMAIN table : table[i].status = s})]

\* SELECT COUNT(*) FROM quarantine
getTotal(table) == Cardinality(DOMAIN table)

\* Time passes between calls.
Tick ==
    /\ clock < MaxClock
    /\ clock' = clock + 1
    /\ ret' = [op |-> "tick", id |-> 0, val |-> TRUE]
    /\ UNCHANGED <<quarantine, nextId, judgeVars, tagVars>>

----------------------------------------------------------------------------
(* core/types.ts *)

\* DEFAULT_TRUST_THRESHOLDS with 0.87 for AGENT in place of 0.78.
DEFAULT_TRUST_THRESHOLDS_Transposed ==
    [t \in TrustLevel |->
        CASE t = "user" -> 900
          [] t = "tool_verified" -> 850
          [] t = "tool_unverified" -> 800
          [] t = "agent" -> 870
          [] t = "external" -> 750]

\* DEFAULT_TRUST_THRESHOLDS
DEFAULT_TRUST_THRESHOLDS ==
    [t \in TrustLevel |->
        CASE t = "user" -> 900
          [] t = "tool_verified" -> 850
          [] t = "tool_unverified" -> 800
          [] t = "agent" -> 780
          [] t = "external" -> 750]

\* DEFAULT_SIMILARITY_THRESHOLD = 0.82
DEFAULT_SIMILARITY_THRESHOLD == 820

Verdicts == {"SAFE", "SUSPICIOUS", "DANGEROUS"}

Max(a, b) == IF a >= b THEN a ELSE b
Min(a, b) == IF a <= b THEN a ELSE b

\* Absent optional values of a DetectionResult.
NoLayer3 == [evaluated |-> FALSE, verdict |-> NULL, confidence |-> 0,
             reasoning |-> <<>>]
NoAnomaly == [present |-> FALSE, score |-> 0, signals |-> <<>>,
              inLearningPeriod |-> FALSE]
NoRequest == [needsAgentEvaluation |-> FALSE, layer2Similarity |-> 0,
              layer2Threshold |-> 0]

\* Absent arguments of buildResult.
NoMatch == [present |-> FALSE, similarity |-> 0]
NoThreshold == [present |-> FALSE, value |-> 0]
NoJudge == [present |-> FALSE, verdict |-> NULL, confidence |-> 0,
            reasoning |-> <<>>]

----------------------------------------------------------------------------
(* core/judge.ts *)

\* shouldEvaluate without the lowTrust condition.
shouldEvaluateAnyTrust(layer1Triggered, layer2Similarity, layer2Threshold, trustLevel) ==
    LET borderlineThreshold == layer2Threshold - 100
        isBorderline == /\ layer2Similarity >= borderlineThreshold
                        /\ layer2Similarity < layer2Threshold
        layer1OnlyTrigger == /\ layer1Triggered
                             /\ layer2Similarity < borderlineThreshold
    IN  isBorderline \/ layer1OnlyTrigger

\* LLMJudge.shouldEvaluate
shouldEvaluate(layer1Triggered, layer2Similarity, layer2Threshold, trustLevel) ==
    LET borderlineThreshold == layer2Threshold - 100
        isBorderline == /\ layer2Similarity >= borderlineThreshold
                        /\ layer2Similarity < layer2Threshold
        layer1OnlyTrigger == /\ layer1Triggered
                             /\ layer2Similarity < borderlineThreshold
        lowTrust == trustLevel \in {"external", "tool_unverified"}
    IN  isBorderline \/ (layer1OnlyTrigger /\ lowTrust)

----------------------------------------------------------------------------
(* core/detector.ts *)

\* Detector.getThreshold
getThreshold(cfg, trustLevel) == cfg.trustThresholds[trustLevel]

\* buildResult's score without the final Math.min(score, 1).
buildScoreUncapped(n, layer2Match, layer3Result) ==
    LET s1 == IF n > 0 THEN 500 + n * 100 ELSE 0
        s2 == IF layer2Match.present THEN Max(s1, layer2Match.similarity) ELSE s1
    IN  IF ~layer3Result.present THEN s2
        ELSE IF layer3Result.verdict = "DANGEROUS" THEN Max(s2, 900)
        ELSE IF layer3Result.verdict = "SUSPICIOUS" THEN Max(s2, 700)
        ELSE IF layer3Result.verdict = "SAFE" /\ layer3Result.confidence > 800
             THEN Min(s2, 300)
        ELSE s2

\* The score computed by Detector.buildResult.
buildScore(n, layer2Match, layer3Result) ==
    LET s1 == IF n > 0 THEN 500 + n * 100 ELSE 0
        s2 == IF layer2Match.present THEN Max(s1, layer2Match.similarity) ELSE s1
        s3 == IF ~layer3Result.present THEN s2
              ELSE IF layer3Result.verdict = "DANGEROUS" THEN Max(s2, 900)
              ELSE IF layer3Result.verdict = "SUSPICIOUS" THEN Max(s2, 700)
              ELSE IF layer3Result.verdict = "SAFE" /\ layer3Result.confidence > 800
                   THEN Min(s2, 300)
              ELSE s2
    IN  Min(s3, 1000)

\* The reason clauses pushed by Detector.buildResult, in order.
buildReasons(layer1Triggered, layer2Triggered, layer3Result, flagged) ==
    (IF layer1Triggered THEN <<"Layer 1 patterns matched">> ELSE <<>>)
    \o (IF layer2Triggered THEN <<"Layer 2 similarity">> ELSE <<>>)
    \o (IF layer3Result.present THEN <<"Layer 3 LLM judge">> ELSE <<>>)
    \o (IF ~flagged THEN <<"Content passed all detection layers">> ELSE <<>>)

\* Detector.buildResult; n is layer1Matches.length.
buildResult(n, layer2Match, threshold, layer3Result, flagged, trustLevel) ==
    LET layer1Triggered == n > 0
        layer2Triggered == /\ layer2Match.present
                           /\ threshold.present
                           /\ layer2Match.similarity >= threshold.value
    IN  [passed |-> ~flagged,
         score |-> buildScore(n, layer2Match, layer3Result),
         layer1 |-> [triggered |-> layer1Triggered, patterns |-> n],
         layer2 |-> [triggered |-> layer2Triggered,
                     similarity |-> IF layer2Match.present
                                    THEN layer2Match.similarity ELSE 0],
         layer3 |-> IF layer3Result.present
                    THEN [evaluated |-> TRUE,
                          verdict |-> layer3Result.verdict,
                          confidence |-> layer3Result.confidence,
                          reasoning |-> layer3Result.reasoning]
                    ELSE NoLayer3,
         anomaly |-> NoAnomaly,
         reason |-> buildReasons(layer1Triggered, layer2Triggered,
                                 layer3Result, flagged),
         agentJudgeRequest |-> NoRequest]

\* The constructor's embeddingClient and llmJudge: made only with an API key.
embeddingClient(cfg) == cfg.openaiApiKey /\ cfg.enableLayer2
llmJudge(cfg) == cfg.openaiApiKey /\ cfg.enableLayer3

\* Detector.initialized after detect's "if (!this.initialized) await
\* this.initialize()": detect returns before it when Layer 2 is off.
initialize(cfg, init) == init \/ (cfg.enableLayer2 /\ embeddingClient(cfg))

\* Detector.exemplarEmbeddings after a call that ran without interleaving:
\* initialize assigns it when it goes from uninitialized to initialized.
loaded(init, initAfter, current) ==
    IF ~init /\ initAfter THEN "detect" ELSE current

\* Whether detect reaches embeddingClient.getEmbedding(text).
RunsLayer2(cfg, n, trustLevel) ==
    /\ cfg.enableLayer2 /\ embeddingClient(cfg)
    /\ (n > 0 \/ trustLevel = "external")

\* Whether detect reaches llmJudge.evaluate(...).
RunsLayer3(cfg, n, trustLevel, sim) ==
    /\ RunsLayer2(cfg, n, trustLevel)
    /\ cfg.enableLayer3 /\ llmJudge(cfg)
    /\ ~(sim >= getThreshold(cfg, trustLevel))
    /\ shouldEvaluate(n > 0, sim, getThreshold(cfg, trustLevel), trustLevel)

\* Detector.detect. n is the number of Layer 1 matches of the text, sim the
\* best cosine similarity the embedding provider's vectors give, judge the
\* JudgeResult LLMJudge.evaluate returns when it is called.
detect(cfg, n, trustLevel, sim, judge) ==
    LET layer1Triggered == n > 0
        shouldRunLayer2 == layer1Triggered \/ trustLevel = "external"
        bestMatch == [present |-> TRUE, similarity |-> sim]
        threshold == getThreshold(cfg, trustLevel)
        layer2Triggered == bestMatch.similarity >= threshold
        layer3Result == IF RunsLayer3(cfg, n, trustLevel, sim)
                        THEN judge ELSE NoJudge
        layer3Triggered == /\ layer3Result.present
                           /\ layer3Result.verdict \in {"DANGEROUS", "SUSPICIOUS"}
        flagged == layer1Triggered \/ layer2Triggered \/ layer3Triggered
    IN  IF ~cfg.enableLayer2 \/ ~embeddingClient(cfg)
        THEN buildResult(n, NoMatch, NoThreshold, NoJudge, layer1Triggered,
                         trustLevel)
        ELSE IF ~shouldRunLayer2
        THEN buildResult(n, NoMatch, NoThreshold, NoJudge, FALSE, trustLevel)
        ELSE buildResult(n, bestMatch, [present |-> TRUE, value |-> threshold],
                         layer3Result, flagged, trustLevel)

----------------------------------------------------------------------------
(* core/agent-judge.ts *)

\* LAYER3_OVERRIDE_THRESHOLD = 0.1
LAYER3_OVERRIDE_THRESHOLD == 100

\* A response is a sequence of lines. A line that starts with one of the three
\* field names is [key, val], val being the rest of the line after trim();
\* any other line has key "text".
ResponseLine(key, val) == [key |-> key, val |-> val]

\* String.toUpperCase on the verdict words that occur.
toUpperCase(v) ==
    CASE v = "safe" -> "SAFE"
      [] v = "suspicious" -> "SUSPICIOUS"
      [] v = "dangerous" -> "DANGEROUS"
      [] OTHER -> v

\* parseFloat on the confidence strings that occur; nan: NaN.
parseFloat(c) ==
    CASE c = "0.0" -> [nan |-> FALSE, num |-> 0]
      [] c = "0.5" -> [nan |-> FALSE, num |-> 500]
      [] c = "0.7" -> [nan |-> FALSE, num |-> 700]
      [] c = "0.8" -> [nan |-> FALSE, num |-> 800]
      [] c = "0.85" -> [nan |-> FALSE, num |-> 850]
      [] c = "0.95" -> [nan |-> FALSE, num |-> 950]
      [] c = "1.0" -> [nan |-> FALSE, num |-> 1000]
      [] c = "1.5" -> [nan |-> FALSE, num |-> 1500]
      [] c = "-0.2" -> [nan |-> FALSE, num |-> 0 - 200]
      [] OTHER -> [nan |-> TRUE, num |-> 0]

\* The state of parseAgentResponse before its loop.
ParseDefault == [verdict |-> "SUSPICIOUS", confidence |-> 500,
                 reasoning |-> <<"Unable to parse response.">>]

\* One iteration of the loop of parseAgentResponse.
parseLine(acc, line) ==
    IF line.key = "VERDICT:"
    THEN LET v == toUpperCase(line.val)
         IN  IF v \in Verdicts THEN [acc EXCEPT !.verdict = v] ELSE acc
    ELSE IF line.key = "CONFIDENCE:"
    THEN LET c == parseFloat(line.val)
         IN  IF ~c.nan /\ c.num >= 0 /\ c.num <= 1000
             THEN [acc EXCEPT !.confidence = c.num] ELSE acc
    ELSE IF line.key = "REASONING:"
    THEN [acc EXCEPT !.reasoning = <<line.val>>]
    ELSE acc

RECURSIVE parseLines(_, _)
parseLines(acc, lines) ==
    IF lines = <<>> THEN acc
    ELSE parseLines(parseLine(acc, Head(lines)), Tail(lines))

\* parseAgentResponse
parseAgentResponse(response) == parseLines(ParseDefault, response)

\* shouldApplyLayer3Verdict with > in place of >=.
shouldApplyLayer3VerdictStrict(layer2Similarity, layer2Threshold, layer3Verdict) ==
    ~(layer2Similarity > layer2Threshold + 100 /\ layer3Verdict = "SAFE")

\* shouldApplyLayer3Verdict
shouldApplyLayer3Verdict(layer2Similarity, layer2Threshold, layer3Verdict) ==
    LET strongSignalThreshold == layer2Threshold + LAYER3_OVERRIDE_THRESHOLD
    IN  IF layer2Similarity >= strongSignalThreshold /\ layer3Verdict = "SAFE"
        THEN FALSE
        ELSE TRUE

\* createAgentJudgeRequest: the context kept for applying the verdict.
createAgentJudgeRequest(layer2Similarity, layer2Threshold) ==
    [needsAgentEvaluation |-> TRUE,
     layer2Similarity |-> layer2Similarity,
     layer2Threshold |-> layer2Threshold]

\* The layer3 field written by applyAgentJudgeResult.
Layer3Of(p, ignored) ==
    [evaluated |-> TRUE, verdict |-> p.verdict, confidence |-> p.confidence,
     reasoning |-> IF ignored
                   THEN <<"[IGNORED - Strong L2 signal]">> \o p.reasoning
                   ELSE p.reasoning]

\* applyAgentJudgeResult's score with the two floors exchanged.
applyScoreSwapped(score, p) ==
    IF p.verdict = "DANGEROUS" THEN Max(score, 700)
    ELSE IF p.verdict = "SUSPICIOUS" THEN Max(score, 900)
    ELSE IF p.verdict = "SAFE" /\ p.confidence > 800 THEN Min(score, 300)
    ELSE score

\* The score recalculated by applyAgentJudgeResult.
applyScore(score, p) ==
    IF p.verdict = "DANGEROUS" THEN Max(score, 900)
    ELSE IF p.verdict = "SUSPICIOUS" THEN Max(score, 700)
    ELSE IF p.verdict = "SAFE" /\ p.confidence > 800 THEN Min(score, 300)
    ELSE score

\* applyAgentJudgeResult without the shouldApplyLayer3Verdict branch.
applyAgentJudgeResultUnguarded(r, agentResponse) ==
    LET p == parseAgentResponse(agentResponse)
        layer3Triggered == p.verdict \in {"DANGEROUS", "SUSPICIOUS"}
    IN  IF ~r.agentJudgeRequest.needsAgentEvaluation
        THEN [r EXCEPT !.layer3 = Layer3Of(p, FALSE)]
        ELSE [r EXCEPT
                !.passed = r.passed /\ ~layer3Triggered,
                !.score = applyScore(r.score, p),
                !.layer3 = Layer3Of(p, FALSE),
                !.reason = @ \o <<"Layer 3 agent judge">>,
                !.agentJudgeRequest = NoRequest]

\* applyAgentJudgeResult applying the verdict also to a result that carries
\* no request.
applyAgentJudgeResultAlways(r, agentResponse) ==
    LET p == parseAgentResponse(agentResponse)
        ctx == r.agentJudgeRequest
        layer3Triggered == p.verdict \in {"DANGEROUS", "SUSPICIOUS"}
    IN  IF /\ ctx.needsAgentEvaluation
           /\ ~shouldApplyLayer3Verdict(ctx.layer2Similarity,
                                        ctx.layer2Threshold, p.verdict)
        THEN [r EXCEPT
                !.layer3 = Layer3Of(p, TRUE),
                !.reason = @ \o <<"Layer 3 SAFE verdict ignored due to strong Layer 2 signal">>,
                !.agentJudgeRequest = NoRequest]
        ELSE [r EXCEPT
                !.passed = r.passed /\ ~layer3Triggered,
                !.score = applyScore(r.score, p),
                !.layer3 = Layer3Of(p, FALSE),
                !.reason = @ \o <<"Layer 3 agent judge">>,
                !.agentJudgeRequest = NoRequest]

\* applyAgentJudgeResult
applyAgentJudgeResult(r, agentResponse) ==
    LET p == parseAgentResponse(agentResponse)
        ctx == r.agentJudgeRequest
        shouldApply == shouldApplyLayer3Verdict(ctx.layer2Similarity,
                                                ctx.layer2Threshold, p.verdict)
        layer3Triggered == p.verdict \in {"DANGEROUS", "SUSPICIOUS"}
    IN  IF ~ctx.needsAgentEvaluation
        THEN [r EXCEPT !.layer3 = Layer3Of(p, FALSE)]
        ELSE IF ~shouldApply
        THEN [r EXCEPT
                !.layer3 = Layer3Of(p, TRUE),
                !.reason = @ \o <<"Layer 3 SAFE verdict ignored due to strong Layer 2 signal">>,
                !.agentJudgeRequest = NoRequest]
        ELSE [r EXCEPT
                !.passed = r.passed /\ ~layer3Triggered,
                !.score = applyScore(r.score, p),
                !.layer3 = Layer3Of(p, FALSE),
                !.reason = @ \o <<"Layer 3 agent judge">>,
                !.agentJudgeRequest = NoRequest]

----------------------------------------------------------------------------
(* What the code reads off a submitted text *)

\* layer1Triage(text).length
layer1Triage(text) ==
    CASE text = "clean" -> 0
      [] text = "note" -> 0
      [] text = "attack" -> 6

\* containsInstruction(text)
containsInstruction(text) == text = "attack"

\* BaselineTracker.extractDomains(text)
extractDomains(text) == IF text = "attack" THEN {"evil.example"} ELSE {}

\* embeddingClient.getEmbedding(text): the direction of the text's vector.
getEmbedding(text) ==
    CASE text = "clean" -> "work"
      [] text = "note" -> "travel"
      [] text = "attack" -> "override"

\* cosineSimilarity of two such vectors.
cosineSimilarity(a, b) ==
    IF a = b THEN 1000
    ELSE IF {a, b} = {"travel", "override"} THEN 200
    ELSE IF {a, b} = {"work", "override"} THEN 0 - 300
    ELSE 0

\* IngressTagger.classifyTrust(source)
classifyTrust(source) ==
    CASE source = "user" -> "user"
      [] source = "agent" -> "agent"
      [] OTHER -> "external"

----------------------------------------------------------------------------
(* core/baseline.ts *)

RECURSIVE SumSeq(_)
SumSeq(values) ==
    IF values = <<>> THEN 0 ELSE Head(values) + SumSeq(Tail(values))

\* RollingAverage.add
RollingAdd(values, maxSize, value) ==
    LET pushed == Append(values, value)
    IN  IF Len(pushed) > maxSize THEN Tail(pushed) ELSE pushed

\* instructionRatio.average < 0.1
InstructionsRare(values) ==
    IF Len(values) = 0 THEN TRUE ELSE 10 * SumSeq(values) < Len(values)

\* avgDaily > 0 && dailyMemoryCount > avgDaily + 2 * stdDev, without the
\* division and the square root: with k values of sum S,
\* d > S/k + 2 sqrt(sum (v - S/k)^2 / k)  iff
\* d k > S and k (d k - S)^2 > 4 sum (v k - S)^2.
FrequencySpike(values, dailyMemoryCount) ==
    LET k == Len(values)
        S == SumSeq(values)
        dev == [i \in 1..k |-> (values[i] * k - S) * (values[i] * k - S)]
        excess == dailyMemoryCount * k - S
    IN  /\ k > 0 /\ S > 0
        /\ excess > 0
        /\ k * excess * excess > 4 * SumSeq(dev)

\* isLearningComplete with || in place of &&.
isLearningCompleteEither(b, now) ==
    LET daysSinceStart == now - b.startDate
    IN  \/ daysSinceStart >= b.config.learningPeriodDays
        \/ b.totalMemories >= b.config.minMemoriesForLearning

\* BaselineTracker.isLearningComplete; dates are day numbers.
isLearningComplete(b, now) ==
    LET daysSinceStart == now - b.startDate
    IN  /\ daysSinceStart >= b.config.learningPeriodDays
        /\ b.totalMemories >= b.config.minMemoriesForLearning

\* BaselineTracker.computeTopicNovelty
computeTopicNovelty(topicEmbeddings, embedding) ==
    LET RECURSIVE MaxSim(_, _)
        MaxSim(m, topics) ==
            IF topics = <<>> THEN m
            ELSE MaxSim(Max(m, cosineSimilarity(embedding, Head(topics))),
                        Tail(topics))
    IN  IF Len(topicEmbeddings) = 0 THEN 0
        ELSE 1000 - MaxSim(0, topicEmbeddings)

Signal(type, severity) == [type |-> type, severity |-> severity]

RECURSIVE Severities(_)
Severities(signals) ==
    IF signals = <<>> THEN 0
    ELSE Head(signals).severity + Severities(Tail(signals))

\* The signals pushed by BaselineTracker.computeAnomaly, in order.
anomalySignals(b, text, source, hasInstruction) ==
    LET domains == extractDomains(text)
        noveltyScore == computeTopicNovelty(b.topicEmbeddings, getEmbedding(text))
        newDomains == domains \ DOMAIN b.domainCounts
    IN  [i \in 1..Cardinality(newDomains) |-> Signal("new_domain", 600)]
        \o (IF source \notin DOMAIN b.sourceCounts
            THEN <<Signal("new_source", 400)>> ELSE <<>>)
        \o (IF hasInstruction /\ InstructionsRare(b.instructionRatio)
            THEN <<Signal("unusual_instruction", 500)>> ELSE <<>>)
        \o (IF /\ b.config.enableTopicTracking /\ b.embeddingClient
               /\ Len(b.topicEmbeddings) > 10
               /\ noveltyScore > b.config.topicNoveltyThreshold
            THEN <<Signal("novel_topic", (noveltyScore * 700) \div 1000)>>
            ELSE <<>>)
        \o (IF FrequencySpike(b.memoriesPerDay, b.dailyMemoryCount)
            THEN <<Signal("frequency_spike", 300)>> ELSE <<>>)

\* computeAnomaly scoring the total severity instead of the mean.
computeAnomalySum(b, text, source, hasInstruction, now) ==
    LET signals == anomalySignals(b, text, source, hasInstruction)
    IN  IF ~isLearningComplete(b, now)
        THEN [present |-> TRUE, score |-> 0, signals |-> <<>>,
              inLearningPeriod |-> TRUE]
        ELSE [present |-> TRUE,
              score |-> Min(1000, Severities(signals)),
              signals |-> signals,
              inLearningPeriod |-> FALSE]

\* BaselineTracker.computeAnomaly. The mean is rounded down to a thousandth.
computeAnomaly(b, text, source, hasInstruction, now) ==
    LET signals == anomalySignals(b, text, source, hasInstruction)
    IN  IF ~isLearningComplete(b, now)
        THEN [present |-> TRUE, score |-> 0, signals |-> <<>>,
              inLearningPeriod |-> TRUE]
        ELSE [present |-> TRUE,
              score |-> IF Len(signals) > 0
                        THEN Min(1000, Severities(signals) \div Len(signals))
                        ELSE 0,
              signals |-> signals,
              inLearningPeriod |-> FALSE]

\* recordMemory leaving the per-source counts as they were.
recordMemoryKeepsSources(b, text, source, hasInstruction, now) ==
    LET newDay == b.lastUpdateDate # now
        memoriesPerDay == IF newDay /\ b.dailyMemoryCount > 0
                          THEN RollingAdd(b.memoriesPerDay, 30, b.dailyMemoryCount)
                          ELSE b.memoriesPerDay
        dailyMemoryCount == IF newDay THEN 0 ELSE b.dailyMemoryCount
        currentSourceCount == IF source \in DOMAIN b.sourceCounts
                              THEN b.sourceCounts[source] ELSE 0
        unshifted == <<getEmbedding(text)>> \o b.topicEmbeddings
    IN  [b EXCEPT
            !.memoriesPerDay = memoriesPerDay,
            !.dailyMemoryCount = dailyMemoryCount + 1,
            !.totalMemories = @ + 1,
            !.lastUpdateDate = now,
            !.instructionRatio =
                RollingAdd(@, 100, IF hasInstruction THEN 1 ELSE 0),
            !.domainCounts =
                [d \in DOMAIN @ \cup extractDomains(text) |->
                    IF d \in extractDomains(text)
                    THEN (IF d \in DOMAIN @ THEN @[d] ELSE 0) + 1
                    ELSE @[d]],
            !.topicEmbeddings =
                IF b.config.enableTopicTracking /\ b.embeddingClient
                THEN IF Len(unshifted) > b.config.maxTopicEmbeddings
                     THEN SubSeq(unshifted, 1, b.config.maxTopicEmbeddings)
                     ELSE unshifted
                ELSE @]

\* BaselineTracker.recordMemory
recordMemory(b, text, source, hasInstruction, now) ==
    LET newDay == b.lastUpdateDate # now
        memoriesPerDay == IF newDay /\ b.dailyMemoryCount > 0
                          THEN RollingAdd(b.memoriesPerDay, 30, b.dailyMemoryCount)
                          ELSE b.memoriesPerDay
        dailyMemoryCount == IF newDay THEN 0 ELSE b.dailyMemoryCount
        currentSourceCount == IF source \in DOMAIN b.sourceCounts
                              THEN b.sourceCounts[source] ELSE 0
        unshifted == <<getEmbedding(text)>> \o b.topicEmbeddings
    IN  [b EXCEPT
            !.memoriesPerDay = memoriesPerDay,
            !.dailyMemoryCount = dailyMemoryCount + 1,
            !.totalMemories = @ + 1,
            !.lastUpdateDate = now,
            !.instructionRatio =
                RollingAdd(@, 100, IF hasInstruction THEN 1 ELSE 0),
            !.sourceCounts =
                [src \in DOMAIN @ \cup {source} |->
                    IF src = source THEN currentSourceCount + 1 ELSE @[src]],
            !.domainCounts =
                [d \in DOMAIN @ \cup extractDomains(text) |->
                    IF d \in extractDomains(text)
                    THEN (IF d \in DOMAIN @ THEN @[d] ELSE 0) + 1
                    ELSE @[d]],
            !.topicEmbeddings =
                IF b.config.enableTopicTracking /\ b.embeddingClient
                THEN IF Len(unshifted) > b.config.maxTopicEmbeddings
                     THEN SubSeq(unshifted, 1, b.config.maxTopicEmbeddings)
                     ELSE unshifted
                ELSE @]

\* A function with the value v at key k.
Put(f, k, v) == [x \in DOMAIN f \cup {k} |-> IF x = k THEN v ELSE f[x]]

RECURSIVE SumCounts(_)
SumCounts(f) ==
    IF DOMAIN f = {} THEN 0
    ELSE LET k == CHOOSE x \in DOMAIN f : TRUE
         IN  f[k] + SumCounts([x \in DOMAIN f \ {k} |-> f[x]])

\* The tables after initSchema on a new database file.
EmptyDb ==
    [saved |-> FALSE,
     state |-> [memoriesPerDay |-> <<>>, instructionRatio |-> <<>>,
                startDate |-> 0, lastUpdateDate |-> 0,
                totalMemories |-> 0, dailyMemoryCount |-> 0],
     sources |-> <<>>, domains |-> <<>>, topics |-> <<>>]

\* The baseline_state keys saveState writes.
savedState(b) ==
    [memoriesPerDay |-> b.memoriesPerDay,
     instructionRatio |-> b.instructionRatio,
     startDate |-> b.startDate, lastUpdateDate |-> b.lastUpdateDate,
     totalMemories |-> b.totalMemories,
     dailyMemoryCount |-> b.dailyMemoryCount]

\* The tables once recordMemory has returned: its INSERTs and saveState.
persisted(b) ==
    [saved |-> TRUE, state |-> savedState(b), sources |-> b.sourceCounts,
     domains |-> b.domainCounts, topics |-> b.topicEmbeddings]

\* The tables behind a tracker: nothing is written before the first
\* recordMemory.
database(b) ==
    IF b.attached /\ b.totalMemories > 0 THEN persisted(b) ELSE EmptyDb

\* BaselineTracker.loadState into the tracker the constructor built.
loadState(b, d) ==
    [b EXCEPT
        !.memoriesPerDay = IF d.saved THEN d.state.memoriesPerDay ELSE @,
        !.instructionRatio = IF d.saved THEN d.state.instructionRatio ELSE @,
        !.startDate = IF d.saved THEN d.state.startDate ELSE @,
        !.lastUpdateDate = IF d.saved THEN d.state.lastUpdateDate ELSE @,
        !.totalMemories = IF d.saved THEN d.state.totalMemories ELSE @,
        !.dailyMemoryCount = IF d.saved THEN d.state.dailyMemoryCount ELSE @,
        !.domainCounts = d.domains,
        !.sourceCounts = d.sources,
        !.topicEmbeddings =
            IF b.config.enableTopicTracking
            THEN IF Len(d.topics) > b.config.maxTopicEmbeddings
                 THEN SubSeq(d.topics, 1, b.config.maxTopicEmbeddings)
                 ELSE d.topics
            ELSE @]

\* A tagger constructed without a baseline tracker.
NoTracker ==
    [attached |-> FALSE,
     config |-> [learningPeriodDays |-> 0, minMemoriesForLearning |-> 0,
                 maxTopicEmbeddings |-> 0, topicNoveltyThreshold |-> 0,
                 enableTopicTracking |-> FALSE],
     embeddingClient |-> FALSE,
     memoriesPerDay |-> <<>>, instructionRatio |-> <<>>,
     domainCounts |-> <<>>, sourceCounts |-> <<>>, topicEmbeddings |-> <<>>,
     startDate |-> 0, lastUpdateDate |-> 0,
     totalMemories |-> 0, dailyMemoryCount |-> 0]

----------------------------------------------------------------------------
(* Calls on the detector and the agent-judge protocol *)

Configs ==
    [openaiApiKey : BOOLEAN, enableLayer2 : BOOLEAN, enableLayer3 : BOOLEAN,
     baseSimilarityThreshold : {DEFAULT_SIMILARITY_THRESHOLD},
     trustThresholds : {DEFAULT_TRUST_THRESHOLDS}]

\* What LLMJudge.evaluate can return.
JudgeResults ==
    [present : {TRUE}, verdict : Verdicts, confidence : Confidences,
     reasoning : {<<"r">>}]

\* Response texts of the agent: the three fields in order, each possibly
\* missing, with verdict words in either case or unknown and confidences in
\* range, out of range or not a number; and a text with none of the fields.
VerdictLines ==
    {ResponseLine("VERDICT:", v) :
        v \in {"SAFE", "safe", "SUSPICIOUS", "DANGEROUS", "MAYBE"}}
ConfidenceLines ==
    {ResponseLine("CONFIDENCE:", c) : c \in {"0.5", "0.95", "1.5", "high"}}
ReasoningLines == {ResponseLine("REASONING:", "r")}
Opt(lines) == {<<>>} \cup {<<l>> : l \in lines}
Responses ==
    ({v \o c \o r : v \in Opt(VerdictLines), c \in Opt(ConfidenceLines),
                    r \in Opt(ReasoningLines)} \ {<<>>})
    \cup {<<ResponseLine("text", "This is not a valid response format")>>}

\* Similarities of a request's context: below every threshold, exactly 0.10
\* above the external and the tool_verified thresholds, and above all of them.
RequestSims == {600, 850, 950}

NoResult ==
    [buildResult(0, NoMatch, NoThreshold, NoJudge, FALSE, "user")
        EXCEPT !.reason = <<>>]

\* detector.detect(text, trustLevel, source)
Detect(n, trustLevel, sim, judge) ==
    /\ result' = detect(config, n, trustLevel, sim, judge)
    /\ initialized' = initialize(config, initialized)
    /\ exemplarEmbeddings' = loaded(initialized, initialized',
                                    exemplarEmbeddings)
    /\ ret' = [op |-> "detect", id |-> 0, val |-> TRUE]
    /\ UNCHANGED <<storeVars, config, tagVars>>

\* The caller's { ...result, agentJudgeRequest: createAgentJudgeRequest(...) }
\* on the result a detection returned.
HoldRequest(layer2Similarity, layer2Threshold) ==
    /\ ret.op \in {"detect", "tag"}
    /\ result' = [result EXCEPT !.agentJudgeRequest =
                    createAgentJudgeRequest(layer2Similarity, layer2Threshold)]
    /\ ret' = [op |-> "hold", id |-> 0, val |-> TRUE]
    /\ UNCHANGED <<storeVars, config, initialized, exemplarEmbeddings, tagVars>>

\* result = applyAgentJudgeResult(result, agentResponse)
ApplyAgentJudgeResult(agentResponse) ==
    /\ ret.op \in {"detect", "tag", "hold", "apply"}
    /\ result' = applyAgentJudgeResult(result, agentResponse)
    /\ ret' = [op |-> "apply", id |-> 0, val |-> TRUE]
    /\ UNCHANGED <<storeVars, config, initialized, exemplarEmbeddings, tagVars>>

\* The provider outputs a detect call consumes: a similarity when Layer 2
\* runs, a JudgeResult when the judge is called.
SimsOf(cfg, n, t) == IF RunsLayer2(cfg, n, t) THEN Sims ELSE {0}
JudgeResultsOf(cfg, n, t, s) ==
    IF RunsLayer3(cfg, n, t, s) THEN JudgeResults ELSE {NoJudge}

DetectInit ==
    /\ quarantine = <<>>
    /\ nextId = 1
    /\ clock = 1
    /\ ret = NoCall
    /\ config \in Configs
    /\ result = NoResult
    /\ baseline = NoTracker
    /\ provenance = <<>>
    /\ args = NoArgs
    /\ initialized = FALSE
    /\ memories = <<>>
    /\ exemplarEmbeddings = NULL
    /\ db = database(baseline)
    /\ pc = Idle

DetectNext ==
    \/ \E n \in L1Counts, t \in TrustLevel :
         \E s \in SimsOf(config, n, t) :
           \E j \in JudgeResultsOf(config, n, t, s) : Detect(n, t, s, j)
    \/ \E s \in RequestSims, t \in TrustLevel :
          HoldRequest(s, config.trustThresholds[t])
    \/ \E resp \in Responses : ApplyAgentJudgeResult(resp)

SpecDetect == DetectInit /\ [][DetectNext]_vars

----------------------------------------------------------------------------
(* tagger/index.ts and storage/provenance.ts *)

\* ProvenanceStore.create: the inserted row.
ProvenanceRow(source, trustLevel, detectionScore, flags, now) ==
    [source |-> source, trust_level |-> trustLevel, timestamp |-> now,
     detection_score |-> detectionScore, flags |-> flags]

\* The anomaly block of IngressTagger.tag escalating from 0.4 instead of 0.7.
tagDetectionLowBar(detection, anomalyResult) ==
    LET withAnomaly == [detection EXCEPT !.anomaly = anomalyResult]
    IN  IF anomalyResult.score >= 400 /\ ~anomalyResult.inLearningPeriod
        THEN [withAnomaly EXCEPT
                !.passed = FALSE,
                !.score = Max(detection.score, anomalyResult.score),
                !.reason = @ \o <<"Anomaly">>]
        ELSE withAnomaly

\* The detection after the anomaly block of IngressTagger.tag.
tagDetection(detection, anomalyResult) ==
    LET withAnomaly == [detection EXCEPT !.anomaly = anomalyResult]
    IN  IF anomalyResult.score >= 700 /\ ~anomalyResult.inLearningPeriod
        THEN [withAnomaly EXCEPT
                !.passed = FALSE,
                !.score = Max(detection.score, anomalyResult.score),
                !.reason = @ \o <<"Anomaly">>]
        ELSE withAnomaly

\* The detection IngressTagger.tag arrives at: detect, then the anomaly block
\* when a baseline tracker is attached.
tagged(text, source, trustLevel, sim, judge) ==
    LET detected == detect(config, layer1Triage(text), trustLevel, sim, judge)
    IN  IF baseline.attached
        THEN tagDetection(detected,
                 computeAnomaly(baseline, text, source,
                                containsInstruction(text), clock))
        ELSE detected

\* What IngressTagger.tag does to the detector, the tracker and the stores:
\* detection, anomaly check, baseline update, provenance record, and the
\* quarantine record of a failed detection.
TagEffects(text, source, trustLevel, sim, judge) ==
    LET hasInstruction == containsInstruction(text)
        detection == tagged(text, source, trustLevel, sim, judge)
    IN  /\ Len(provenance) < MaxRecords
        /\ baseline' = IF baseline.attached
                       THEN recordMemory(baseline, text, source, hasInstruction,
                                         clock)
                       ELSE baseline
        /\ provenance' = Append(provenance,
                            ProvenanceRow(source, trustLevel, detection.score,
                                          detection.layer1.patterns, clock))
        /\ IF ~detection.passed
           THEN /\ quarantine' = add(quarantine, nextId, text, clock)
                /\ nextId' = nextId + 1
           ELSE UNCHANGED <<quarantine, nextId>>
        /\ result' = detection
        /\ initialized' = initialize(config, initialized)
        /\ exemplarEmbeddings' = loaded(initialized, initialized',
                                        exemplarEmbeddings)
        /\ db' = IF baseline.attached THEN persisted(baseline') ELSE db
        /\ UNCHANGED <<clock, config, args, pc>>

\* IngressTagger.tag: ret.val is allowed, ret.id the quarantineId.
Tag(text, source, trustLevel, sim, judge) ==
    /\ TagEffects(text, source, trustLevel, sim, judge)
    /\ ret' = IF result'.passed
              THEN [op |-> "tag", id |-> 0, val |-> TRUE]
              ELSE [op |-> "tag", id |-> nextId, val |-> FALSE]
    /\ UNCHANGED memories

\* MemoryStore.write inserting whatever the tagger returned.
writeMemoryAlways(table, allowed, text, provenanceId, now) ==
    Append(table, [text |-> text, provenance_id |-> provenanceId,
                   created_at |-> now])

\* MemoryStore.write after the tagger returned: the memories table.
writeMemory(table, allowed, text, provenanceId, now) ==
    IF ~allowed
    THEN table
    ELSE Append(table, [text |-> text, provenance_id |-> provenanceId,
                        created_at |-> now])

\* MemoryStore.write: tagger.tag, then the INSERT of an allowed submission.
\* ret.id is the quarantine id of a rejected submission, the memory's id
\* (its row number) otherwise.
Write(text, source, trustLevel, sim, judge) ==
    /\ TagEffects(text, source, trustLevel, sim, judge)
    /\ memories' = writeMemory(memories, result'.passed, text,
                               Len(provenance'), clock)
    /\ ret' = IF result'.passed
              THEN [op |-> "write", id |-> Len(memories'), val |-> TRUE]
              ELSE [op |-> "write", id |-> nextId, val |-> FALSE]

\* Baseline configurations: a short learning period, topic tracking on or off.
BaselineConfigs ==
    [learningPeriodDays : {1}, minMemoriesForLearning : {2},
     maxTopicEmbeddings : {12}, topicNoveltyThreshold : {700},
     enableTopicTracking : BOOLEAN]

\* new BaselineTracker(dbPath, config, embeddingClient) on an empty database.
FreshTracker(cfg, client, now) ==
    [NoTracker EXCEPT !.attached = TRUE, !.config = cfg,
                      !.embeddingClient = client,
                      !.startDate = now, !.lastUpdateDate = now]

\* The same constructor on the database an earlier run left on day 0, after
\* eleven plain submissions from the user: loadState.
LoadedTracker(cfg, client) ==
    [NoTracker EXCEPT
        !.attached = TRUE, !.config = cfg, !.embeddingClient = client,
        !.instructionRatio = [i \in 1..11 |-> 0],
        !.sourceCounts = "user" :> 11,
        !.topicEmbeddings = IF cfg.enableTopicTracking
                            THEN [i \in 1..11 |-> "work"] ELSE <<>>,
        !.totalMemories = 11, !.dailyMemoryCount = 11]

Trackers(client, now) ==
    {NoTracker}
    \cup {FreshTracker(cfg, client, now) :
             cfg \in {c \in BaselineConfigs : ~c.enableTopicTracking}}
    \cup {LoadedTracker(cfg, client) : cfg \in BaselineConfigs}

\* Responses the agent gives to a tagged submission.
TagResponses ==
    {<<ResponseLine("VERDICT:", v), ResponseLine("CONFIDENCE:", "0.95"),
       ResponseLine("REASONING:", "r")>> : v \in Verdicts}

\* findMostSimilar(getEmbedding(text), exemplarEmbeddings).similarity for the
\* submitted texts: the provider's vectors are fixed for a run.
exemplarSimilarity(text) ==
    CASE text = "clean" -> 0 - 200
      [] text = "note" -> 700
      [] text = "attack" -> 950

\* Detectors of the tagger: every layer enabled, with and without an API key.
TagConfigs == {c \in Configs : c.enableLayer2 /\ c.enableLayer3}

\* What LLMJudge.evaluate returns for a tagged submission.
TagJudgeResults == {j \in JudgeResults : j.confidence = 900}

TagJudgeResultsOf(cfg, n, t, s) ==
    IF RunsLayer3(cfg, n, t, s) THEN TagJudgeResults ELSE {NoJudge}

Init ==
    /\ quarantine = <<>>
    /\ nextId = 1
    /\ clock = 1
    /\ ret = NoCall
    /\ config \in TagConfigs
    /\ result = NoResult
    /\ baseline \in Trackers(config.openaiApiKey, 1)
    /\ provenance = <<>>
    /\ args = NoArgs
    /\ initialized = FALSE
    /\ memories = <<>>
    /\ exemplarEmbeddings = NULL
    /\ db = database(baseline)
    /\ pc = Idle

Next ==
    \/ \E text \in Texts, source \in Sources :
         \E j \in TagJudgeResultsOf(config, layer1Triage(text),
                                    classifyTrust(source),
                                    exemplarSimilarity(text)) :
            Tag(text, source, classifyTrust(source), exemplarSimilarity(text), j)
    \/ \E s \in {600, 850} : HoldRequest(s, config.trustThresholds["external"])
    \/ \E resp \in TagResponses : ApplyAgentJudgeResult(resp)
    \/ Tick

Spec == Init /\ [][Next]_vars

----------------------------------------------------------------------------
(* shouldApplyLayer3Verdict on its own *)

\* Similarities around each default threshold plus 0.10, and the extremes.
ApplySims ==
    {0 - 1000, 0, 600, 749, 750, 849, 850, 851, 879, 880, 881, 899, 900, 949,
     950, 999, 1000}

ApplyThresholds == {DEFAULT_TRUST_THRESHOLDS[t] : t \in TrustLevel}

\* shouldApplyLayer3Verdict(layer2Similarity, layer2Threshold, layer3Verdict)
ShouldApplyLayer3Verdict ==
    /\ ret.op = "none"
    /\ ret' = [op |-> "shouldApply", id |-> 0,
               val |-> shouldApplyLayer3Verdict(args.layer2Similarity,
                                                args.layer2Threshold,
                                                args.layer3Verdict)]
    /\ UNCHANGED <<storeVars, judgeVars, tagVars>>

ShouldApplyInit ==
    /\ quarantine = <<>>
    /\ nextId = 1
    /\ clock = 1
    /\ ret = NoCall
    /\ config = NULL
    /\ result = NoResult
    /\ baseline = NoTracker
    /\ provenance = <<>>
    /\ initialized = FALSE
    /\ memories = <<>>
    /\ exemplarEmbeddings = NULL
    /\ db = database(baseline)
    /\ pc = Idle
    /\ args \in [layer2Similarity : ApplySims,
                 layer2Threshold : ApplyThresholds,
                 layer3Verdict : Verdicts]

ShouldApplyNext == ShouldApplyLayer3Verdict

SpecShouldApply == ShouldApplyInit /\ [][ShouldApplyNext]_vars

----------------------------------------------------------------------------

StoreInit ==
    /\ quarantine = <<>>
    /\ nextId = 1
    /\ clock = 1
    /\ ret = NoCall
    /\ config = NULL
    /\ result = NoResult
    /\ baseline = NoTracker
    /\ provenance = <<>>
    /\ args = NoArgs
    /\ initialized = FALSE
    /\ memories = <<>>
    /\ exemplarEmbeddings = NULL
    /\ db = database(baseline)
    /\ pc = Idle

StoreNext ==
    \/ \E t \in Texts : Add(t)
    \/ \E id \in 1..MaxRecords, r \in Reviewers : Approve(id, r)
    \/ \E id \in 1..MaxRecords, r \in Reviewers : Reject(id, r)
    \/ \E id \in 1..MaxRecords : Delete(id)
    \/ Tick

SpecStore == StoreInit /\ [][StoreNext]_vars

----------------------------------------------------------------------------
(* parseAgentResponse on its own *)

\* parseAgentResponse(response). In the responses drawn a field name occurs
\* only at the start of a line, where the loop reads it.
ParseAgentResponse ==
    /\ ret.op = "none"
    /\ ret' = [op |-> "parse", id |-> 0,
               val |-> parseAgentResponse(args.response)]
    /\ UNCHANGED <<storeVars, judgeVars, tagVars>>

ParseInit ==
    /\ quarantine = <<>>
    /\ nextId = 1
    /\ clock = 1
    /\ ret = NoCall
    /\ config = NULL
    /\ result = NoResult
    /\ baseline = NoTracker
    /\ provenance = <<>>
    /\ initialized = FALSE
    /\ memories = <<>>
    /\ exemplarEmbeddings = NULL
    /\ db = database(baseline)
    /\ pc = Idle
    /\ args \in [response : Responses]

ParseNext == ParseAgentResponse

SpecParse == ParseInit /\ [][ParseNext]_vars

----------------------------------------------------------------------------
(* detect with the providers' failures: core/judge.ts, core/embeddings.ts *)

\* LLMJudge.parseResponse: the loop of parseAgentResponse, with its own text
\* for the reasoning it starts from.
parseResponse(content) ==
    parseLines([ParseDefault EXCEPT
                   !.reasoning = <<"Unable to parse LLM response.">>], content)

\* What client.chat.completions.create does: it resolves with a message
\* content (possibly the empty string, content <<>>), resolves without one, or
\* rejects (an API error or a timeout).
JudgeContents ==
    {<<>>,
     <<ResponseLine("VERDICT:", "SAFE"), ResponseLine("CONFIDENCE:", "0.95"),
       ResponseLine("REASONING:", "r")>>,
     <<ResponseLine("VERDICT:", "DANGEROUS"), ResponseLine("CONFIDENCE:", "0.5"),
       ResponseLine("REASONING:", "r")>>,
     <<ResponseLine("text", "This is not a valid response format")>>}
JudgeCalls ==
    {[kind |-> "content", content |-> c] : c \in JudgeContents}
    \cup {[kind |-> "null", content |-> <<>>],
          [kind |-> "error", content |-> <<>>]}

\* LLMJudge.evaluate whose catch block lets the submission through.
evaluateFailsOpen(call) ==
    IF call.kind = "content" /\ call.content # <<>>
    THEN [present |-> TRUE] @@ parseResponse(call.content)
    ELSE [present |-> TRUE, verdict |-> "SAFE", confidence |-> 500,
          reasoning |-> <<"LLM evaluation failed">>]

\* LLMJudge.evaluate: the try block throws on a rejected call and on a missing
\* or empty content; the catch block returns the conservative result.
evaluate(call) ==
    IF call.kind = "content" /\ call.content # <<>>
    THEN [present |-> TRUE] @@ parseResponse(call.content)
    ELSE [present |-> TRUE, verdict |-> "SUSPICIOUS", confidence |-> 500,
          reasoning |-> <<"LLM evaluation failed, flagging for manual review as a precaution.">>]

\* What client.embeddings.create does for the exemplar batch of initialize()
\* and for the submitted text: each call resolves or rejects; similarity is
\* the best cosine similarity the returned vectors give.
EmbeddingCalls ==
    {[loadOk |-> TRUE, embedOk |-> TRUE, similarity |-> s] : s \in Sims}
    \cup {[loadOk |-> FALSE, embedOk |-> TRUE, similarity |-> 0],
          [loadOk |-> TRUE, embedOk |-> FALSE, similarity |-> 0]}

\* Detector.detect with its awaits: a rejected await rejects detect's promise
\* (threw), there being no try block in detect, initialize, getEmbedding or
\* getEmbeddings. judged: llmJudge.evaluate was reached.
detectCall(cfg, init, n, trustLevel, emb, call) ==
    LET shouldRunLayer2 == n > 0 \/ trustLevel = "external"
        Done(i, judged, r) == [threw |-> FALSE, initialized |-> i,
                               judged |-> judged, result |-> r]
        Thrown(i) == [threw |-> TRUE, initialized |-> i, judged |-> FALSE,
                      result |-> NoResult]
    IN  IF ~cfg.enableLayer2 \/ ~embeddingClient(cfg)
        THEN Done(init, FALSE, detect(cfg, n, trustLevel, 0, NoJudge))
        ELSE IF ~init /\ ~emb.loadOk
        THEN Thrown(FALSE)
        ELSE IF ~shouldRunLayer2
        THEN Done(TRUE, FALSE, detect(cfg, n, trustLevel, 0, NoJudge))
        ELSE IF ~emb.embedOk
        THEN Thrown(TRUE)
        ELSE Done(TRUE, RunsLayer3(cfg, n, trustLevel, emb.similarity),
                  detect(cfg, n, trustLevel, emb.similarity, evaluate(call)))

\* await detector.detect(text, trustLevel, source): the caller keeps the
\* result it held when the promise rejects. ret.val: the promise resolved.
DetectCall(n, trustLevel, emb, call) ==
    LET out == detectCall(config, initialized, n, trustLevel, emb, call)
    IN  /\ result' = IF out.threw THEN result ELSE out.result
        /\ initialized' = out.initialized
        /\ exemplarEmbeddings' = loaded(initialized, initialized',
                                        exemplarEmbeddings)
        /\ args' = [n |-> n, trustLevel |-> trustLevel, embedding |-> emb,
                    judge |-> call, judged |-> out.judged,
                    wasInitialized |-> initialized]
        /\ ret' = [op |-> "detect", id |-> 0, val |-> ~out.threw]
        /\ UNCHANGED <<storeVars, config, baseline, provenance, memories, db, pc>>

\* The calls a detect consumes.
EmbeddingCallsOf(cfg, init, n, t) ==
    IF ~cfg.enableLayer2 \/ ~embeddingClient(cfg)
    THEN {[loadOk |-> TRUE, embedOk |-> TRUE, similarity |-> 0]}
    ELSE {e \in EmbeddingCalls :
            /\ init => e.loadOk
            /\ ~(n > 0 \/ t = "external") => (e.embedOk /\ e.similarity = 0)}
JudgeCallsOf(cfg, n, t, e) ==
    IF e.loadOk /\ e.embedOk /\ RunsLayer3(cfg, n, t, e.similarity)
    THEN JudgeCalls ELSE {[kind |-> "error", content |-> <<>>]}

ProvidersInit ==
    /\ quarantine = <<>>
    /\ nextId = 1
    /\ clock = 1
    /\ ret = NoCall
    /\ config \in Configs
    /\ result = NoResult
    /\ baseline = NoTracker
    /\ provenance = <<>>
    /\ initialized = FALSE
    /\ memories = <<>>
    /\ exemplarEmbeddings = NULL
    /\ db = database(baseline)
    /\ pc = Idle
    /\ args = NoArgs

ProvidersNext ==
    \E n \in L1Counts, t \in TrustLevel :
      \E e \in EmbeddingCallsOf(config, initialized, n, t) :
        \E c \in JudgeCallsOf(config, n, t, e) : DetectCall(n, t, e, c)

SpecProviders == ProvidersInit /\ [][ProvidersNext]_vars

----------------------------------------------------------------------------
(* MemoryStore over the tagger *)

MemoryNext ==
    \/ \E text \in Texts, source \in Sources :
         \E j \in TagJudgeResultsOf(config, layer1Triage(text),
                                    classifyTrust(source),
                                    exemplarSimilarity(text)) :
            Write(text, source, classifyTrust(source), exemplarSimilarity(text), j)
    \/ Tick

SpecMemory == Init /\ [][MemoryNext]_vars

----------------------------------------------------------------------------
(* cli/index.ts: the full scan of "memfw scan" *)

\* The detectors the command creates: Layer 2 and Layer 3 only with an API key.
ScanConfigs ==
    {c \in Configs : ~c.openaiApiKey => (~c.enableLayer2 /\ ~c.enableLayer3)}

\* memfw scan <content> --source --trust [--quarantine]: with --quarantine a
\* tagger without a baseline tracker tags the content; without it the command
\* calls detector.detect and reports. --agent-response is applied only to a
\* result that carries a request. ret.id is the exit code, ret.val "allowed".
Scan(text, source, trustLevel, withQuarantine, sim, judge, agentResponse) ==
    IF withQuarantine
    THEN /\ TagEffects(text, source, trustLevel, sim, judge)
         /\ ret' = [op |-> "scan", id |-> IF result'.passed THEN 0 ELSE 1,
                    val |-> result'.passed]
         /\ UNCHANGED memories
    ELSE LET detected == detect(config, layer1Triage(text), trustLevel, sim,
                                judge)
         IN  /\ result' = IF /\ agentResponse # <<>>
                             /\ detected.agentJudgeRequest.needsAgentEvaluation
                          THEN applyAgentJudgeResult(detected, agentResponse)
                          ELSE detected
             /\ initialized' = initialize(config, initialized)
             /\ exemplarEmbeddings' = loaded(initialized, initialized',
                                             exemplarEmbeddings)
             /\ ret' = [op |-> "scan", id |-> IF result'.passed THEN 0 ELSE 1,
                        val |-> result'.passed]
             /\ UNCHANGED <<storeVars, config, tagVars>>

\* --source and --trust as given on the command line, one source per level.
ScanOptions ==
    {[source |-> IF t = "user" THEN "user" ELSE "web_scrape", trust |-> t] :
        t \in TrustLevel}

\* --agent-response: absent, or a verdict text.
ScanResponses ==
    {<<>>,
     <<ResponseLine("VERDICT:", "DANGEROUS"), ResponseLine("CONFIDENCE:", "0.95"),
       ResponseLine("REASONING:", "r")>>}

ScanInit ==
    /\ quarantine = <<>>
    /\ nextId = 1
    /\ clock = 1
    /\ ret = NoCall
    /\ config \in ScanConfigs
    /\ result = NoResult
    /\ baseline = NoTracker
    /\ provenance = <<>>
    /\ initialized = FALSE
    /\ memories = <<>>
    /\ exemplarEmbeddings = NULL
    /\ db = database(baseline)
    /\ pc = Idle
    /\ args = NoArgs

\* Detector.quickCheck(text).suspicious
quickCheck(text) == layer1Triage(text) > 0

\* memfw scan --quick [--json] <content>: Layer 1 only. ret.id is the exit
\* code, ret.val "allowed".
QuickScan(text, json) ==
    /\ ret' = [op |-> "quick",
               id |-> IF json /\ quickCheck(text) THEN 1 ELSE 0,
               val |-> ~quickCheck(text)]
    /\ UNCHANGED <<storeVars, judgeVars, tagVars>>

\* The scan command's fail mode with --fail-open alone deciding it.
failOpenIgnoresClosed(options) == options.failOpen

\* const failOpen = options.failOpen && !options.failClosed
failOpen(options) == options.failOpen /\ ~options.failClosed

\* memfw scan whose try block threw before the stores were touched
\* (createDetector, opening a store): the catch block decides the outcome
\* from failOpen = options.failOpen && !options.failClosed.
ScanError(options) ==
    /\ ret' = [op |-> "scan_error", id |-> IF failOpen(options) THEN 0 ELSE 1,
               val |-> failOpen(options)]
    /\ args' = options
    /\ UNCHANGED <<storeVars, judgeVars, baseline, provenance, memories, db, pc>>

ScanNext ==
    \/ \E text \in Texts, o \in ScanOptions, q \in BOOLEAN,
          resp \in ScanResponses :
         \E j \in TagJudgeResultsOf(config, layer1Triage(text), o.trust,
                                    exemplarSimilarity(text)) :
            Scan(text, o.source, o.trust, q, exemplarSimilarity(text), j, resp)
    \/ \E text \in Texts, json \in BOOLEAN : QuickScan(text, json)
    \/ Tick

SpecScan == ScanInit /\ [][ScanNext]_vars

-----------------------------------------------------------------------------
(* skill/src/hooks.ts and the scan command's error path *)

\* --fail-open and --fail-closed as given on the command line; the catch
\* block exits with the same code with and without --json.
ErrorOptions == [failOpen : BOOLEAN, failClosed : BOOLEAN]

\* MemoryHook.onWrite(content, context). ready: skill.isInitialized();
\* threw: skill.analyzeContent rejected before the tagger touched a store.
\* analyzeContent classifies the source and calls tagger.tag. ret.val is the
\* returned allowed, ret.id the quarantineId.
OnWrite(text, source, ready, threw, sim, judge) ==
    IF ~ready
    THEN /\ ret' = [op |-> "onWrite_uninitialized", id |-> 0, val |-> TRUE]
         /\ UNCHANGED <<storeVars, judgeVars, tagVars>>
    ELSE IF threw
    THEN /\ ret' = [op |-> "onWrite_error", id |-> 0, val |-> TRUE]
         /\ UNCHANGED <<storeVars, judgeVars, tagVars>>
    ELSE /\ TagEffects(text, source, classifyTrust(source), sim, judge)
         /\ ret' = IF result'.passed
                   THEN [op |-> "onWrite", id |-> 0, val |-> TRUE]
                   ELSE [op |-> "onWrite", id |-> nextId, val |-> FALSE]
         /\ UNCHANGED memories

\* MemfwSkill.applyAgentJudgeVerdict on a detection and a parsed response.
applyAgentJudgeVerdict(r, agentResponse) ==
    LET ctx == r.agentJudgeRequest
        strongSignalThreshold == ctx.layer2Threshold + 100
        layer3Triggered == agentResponse.verdict \in {"DANGEROUS", "SUSPICIOUS"}
    IN  IF /\ ctx.needsAgentEvaluation
           /\ ctx.layer2Similarity >= strongSignalThreshold
           /\ agentResponse.verdict = "SAFE"
        THEN [r EXCEPT
                !.layer3 = Layer3Of(agentResponse, TRUE),
                !.reason = @ \o <<"Layer 3 SAFE verdict ignored due to strong Layer 2 signal">>]
        ELSE [r EXCEPT
                !.passed = r.passed /\ ~layer3Triggered,
                !.score = applyScore(r.score, agentResponse),
                !.layer3 = Layer3Of(agentResponse, FALSE),
                !.reason = @ \o <<"Layer 3 agent judge">>,
                !.agentJudgeRequest = NoRequest]

\* skill.applyAgentJudgeVerdict(result, agentResponse) on the TagResult of
\* the last analysis: ret.val is the returned allowed, ret.id the
\* quarantineId carried over.
ApplyAgentJudgeVerdict(agentResponse) ==
    /\ ret.op = "onWrite"
    /\ result' = applyAgentJudgeVerdict(result, agentResponse)
    /\ ret' = [op |-> "verdict", id |-> ret.id, val |-> result'.passed]
    /\ UNCHANGED <<storeVars, config, initialized, exemplarEmbeddings, tagVars>>

\* Parsed responses of the agent.
AgentJudgeResponses ==
    [verdict : Verdicts, confidence : {950}, reasoning : {<<"r">>}]

HookNext ==
    \/ \E text \in Texts, source \in Sources, ready \in BOOLEAN,
          threw \in BOOLEAN :
         \E j \in TagJudgeResultsOf(config, layer1Triage(text),
                                    classifyTrust(source),
                                    exemplarSimilarity(text)) :
            OnWrite(text, source, ready, threw, exemplarSimilarity(text), j)
    \/ \E options \in ErrorOptions : ScanError(options)
    \/ Tick

SpecHook == Init /\ [][HookNext]_vars

\* The skill: analyses through the hook and agent verdicts applied to them.
SkillNext ==
    \/ \E text \in Texts, source \in Sources, ready \in BOOLEAN,
          threw \in BOOLEAN :
         \E j \in TagJudgeResultsOf(config, layer1Triage(text),
                                    classifyTrust(source),
                                    exemplarSimilarity(text)) :
            OnWrite(text, source, ready, threw, exemplarSimilarity(text), j)
    \/ \E agentResponse \in AgentJudgeResponses :
         ApplyAgentJudgeVerdict(agentResponse)
    \/ Tick

SpecSkill == Init /\ [][SkillNext]_vars

----------------------------------------------------------------------------
(* The Detector constructor and its options *)

\* options.trustThresholds: absent, or a Partial<Record<TrustLevel, number>>.
ThresholdOverrides == {<<>>, "external" :> 950, "user" :> 700}

\* options.similarityThreshold as the callers set it: sensitivityToThreshold
\* of high, medium (the default) and low.
SensitivityThresholds == {750, DEFAULT_SIMILARITY_THRESHOLD, 880}

\* The options a caller passes to new Detector(...); the tests and the skill
\* also pass useAgentJudge.
DetectorOptions ==
    [openaiApiKey : BOOLEAN, enableLayer2 : BOOLEAN, enableLayer3 : BOOLEAN,
     useAgentJudge : BOOLEAN, similarityThreshold : SensitivityThresholds,
     trustThresholds : ThresholdOverrides]

\* The Detector constructor: the fields it sets. trustThresholds is
\* { ...DEFAULT_TRUST_THRESHOLDS, ...options.trustThresholds }; no field is set
\* from options.useAgentJudge, and baseSimilarityThreshold is stored only.
Detector(options) ==
    [openaiApiKey |-> options.openaiApiKey,
     enableLayer2 |-> options.enableLayer2,
     enableLayer3 |-> options.enableLayer3,
     baseSimilarityThreshold |-> options.similarityThreshold,
     trustThresholds |->
        [t \in TrustLevel |->
            IF t \in DOMAIN options.trustThresholds
            THEN options.trustThresholds[t]
            ELSE DEFAULT_TRUST_THRESHOLDS[t]]]

\* detector = new Detector(options)
NewDetector ==
    /\ ret.op = "none"
    /\ config' = Detector(args)
    /\ ret' = [op |-> "new", id |-> 0, val |-> TRUE]
    /\ UNCHANGED <<storeVars, result, initialized, exemplarEmbeddings, tagVars>>

ConstructInit ==
    /\ quarantine = <<>>
    /\ nextId = 1
    /\ clock = 1
    /\ ret = NoCall
    /\ config = NULL
    /\ result = NoResult
    /\ baseline = NoTracker
    /\ provenance = <<>>
    /\ initialized = FALSE
    /\ memories = <<>>
    /\ exemplarEmbeddings = NULL
    /\ db = database(baseline)
    /\ pc = Idle
    /\ args \in DetectorOptions

ConstructNext ==
    \/ NewDetector
    \/ /\ ret.op # "none"
       /\ \E n \in L1Counts, t \in TrustLevel :
            \E s \in SimsOf(config, n, t) :
              \E j \in JudgeResultsOf(config, n, t, s) : Detect(n, t, s, j)

SpecConstruct == ConstructInit /\ [][ConstructNext]_vars

-----------------------------------------------------------------------------
(* core/baseline.ts: recordMemory statement by statement, and a crash *)

\* recordMemory up to the baseline_sources INSERT: the counters, the
\* instruction ratio and the source count change in memory, and the source
\* row is written (each statement commits by itself).
RecordSource(text, source, hasInstruction) ==
    LET r == recordMemory(baseline, text, source, hasInstruction, clock)
    IN  /\ pc["recordMemory"] = "idle"
        /\ baseline.totalMemories < MaxMemories
        /\ SumCounts(db.sources) < MaxMemories
        /\ baseline' = [r EXCEPT !.domainCounts = baseline.domainCounts,
                                 !.topicEmbeddings = baseline.topicEmbeddings]
        /\ db' = [db EXCEPT !.sources = Put(@, source, r.sourceCounts[source])]
        /\ args' = [text |-> text, source |-> source,
                    containsInstruction |-> hasInstruction]
        /\ pc' = [pc EXCEPT !["recordMemory"] = "domains"]
        /\ UNCHANGED <<storeVars, judgeVars, ret, provenance, memories>>

\* The loop over the text's domains, with its baseline_domains INSERTs.
RecordDomains ==
    LET r == recordMemory(baseline, args.text, args.source,
                          args.containsInstruction, clock)
        domains == extractDomains(args.text)
    IN  /\ pc["recordMemory"] = "domains"
        /\ baseline' = [baseline EXCEPT !.domainCounts = r.domainCounts]
        /\ db' = [db EXCEPT !.domains =
                    [d \in DOMAIN @ \cup domains |->
                        IF d \in domains THEN r.domainCounts[d] ELSE @[d]]]
        /\ pc' = [pc EXCEPT !["recordMemory"] = "topic"]
        /\ UNCHANGED <<storeVars, judgeVars, ret, provenance, args, memories>>

\* The topic embedding, after its await: unshift, trim, INSERT and DELETE.
RecordTopic ==
    LET r == recordMemory(baseline, args.text, args.source,
                          args.containsInstruction, clock)
    IN  /\ pc["recordMemory"] = "topic"
        /\ baseline' = [baseline EXCEPT !.topicEmbeddings = r.topicEmbeddings]
        /\ db' = IF baseline.config.enableTopicTracking /\ baseline.embeddingClient
                 THEN [db EXCEPT !.topics = r.topicEmbeddings]
                 ELSE db
        /\ pc' = [pc EXCEPT !["recordMemory"] = "saveState"]
        /\ UNCHANGED <<storeVars, judgeVars, ret, provenance, args, memories>>

\* saveState, and recordMemory returns.
SaveState ==
    /\ pc["recordMemory"] = "saveState"
    /\ db' = [db EXCEPT !.saved = TRUE, !.state = savedState(baseline)]
    /\ pc' = [pc EXCEPT !["recordMemory"] = "idle"]
    /\ ret' = [op |-> "recordMemory", id |-> 0, val |-> TRUE]
    /\ UNCHANGED <<storeVars, judgeVars, baseline, provenance, args, memories>>

\* The process dies inside recordMemory and is started again:
\* new BaselineTracker(dbPath, config, embeddingClient) loads the tables.
Crash ==
    /\ pc["recordMemory"] # "idle"
    /\ baseline' = loadState(FreshTracker(baseline.config,
                                          baseline.embeddingClient, clock), db)
    /\ pc' = [pc EXCEPT !["recordMemory"] = "idle"]
    /\ ret' = [op |-> "restart", id |-> 0, val |-> TRUE]
    /\ UNCHANGED <<storeVars, judgeVars, provenance, args, memories, db>>

\* A tracker on the database an earlier run left.
CrashInit ==
    /\ quarantine = <<>>
    /\ nextId = 1
    /\ clock = 1
    /\ ret = NoCall
    /\ config \in TagConfigs
    /\ result = NoResult
    /\ baseline \in {LoadedTracker(cfg, config.openaiApiKey) :
                        cfg \in BaselineConfigs}
    /\ provenance = <<>>
    /\ args = NoArgs
    /\ initialized = FALSE
    /\ memories = <<>>
    /\ exemplarEmbeddings = NULL
    /\ db = database(baseline)
    /\ pc = Idle

CrashNext ==
    \/ \E text \in Texts, source \in Sources :
         RecordSource(text, source, containsInstruction(text))
    \/ RecordDomains
    \/ RecordTopic
    \/ SaveState
    \/ Crash
    \/ Tick

SpecCrash == CrashInit /\ [][CrashNext]_vars

-----------------------------------------------------------------------------
(* core/detector.ts: detect calls interleaving at initialize's await *)

\* detect up to its first await: with Layer 2 off it goes on without one; an
\* uninitialized detector enters initialize, passes "if (this.initialized)
\* return" and waits for embeddingClient.getEmbeddings(exemplarTexts).
StartDetect(c) ==
    /\ pc[c] = "idle"
    /\ pc' = [pc EXCEPT ![c] =
                IF ~config.enableLayer2 \/ ~embeddingClient(config)
                THEN "ready"
                ELSE IF ~initialized THEN "loading" ELSE "ready"]
    /\ UNCHANGED <<storeVars, judgeVars, ret, baseline, provenance, args,
                   memories, db>>

\* The await in initialize resumes: the provider's vectors are assigned to
\* exemplarEmbeddings and initialized is set; a rejected request rejects the
\* detect call.
LoadExemplars(c, ok) ==
    /\ pc[c] = "loading"
    /\ IF ok
       THEN /\ exemplarEmbeddings' = c
            /\ initialized' = TRUE
            /\ pc' = [pc EXCEPT ![c] = "ready"]
            /\ UNCHANGED ret
       ELSE /\ pc' = [pc EXCEPT ![c] = "idle"]
            /\ ret' = [op |-> "detect", id |-> 0, val |-> FALSE]
            /\ UNCHANGED <<exemplarEmbeddings, initialized>>
    /\ UNCHANGED <<storeVars, config, result, baseline, provenance, args,
                   memories, db>>

\* The rest of detect: the layers and buildResult.
FinishDetect(c, n, trustLevel, sim, judge) ==
    /\ pc[c] = "ready"
    /\ result' = detect(config, n, trustLevel, sim, judge)
    /\ ret' = [op |-> "detect", id |-> 0, val |-> TRUE]
    /\ pc' = [pc EXCEPT ![c] = "idle"]
    /\ UNCHANGED <<storeVars, config, initialized, exemplarEmbeddings,
                   baseline, provenance, args, memories, db>>

LoadNext ==
    \/ \E c \in Calls : StartDetect(c)
    \/ \E c \in Calls, ok \in BOOLEAN : LoadExemplars(c, ok)
    \/ \E c \in Calls, n \in {0, 1}, t \in {"user", "external"} :
         \E s \in SimsOf(config, n, t) \cap {0, 600, 950} :
           \E j \in TagJudgeResultsOf(config, n, t, s) :
              FinishDetect(c, n, t, s, j)

SpecLoad == DetectInit /\ [][LoadNext]_vars

-----------------------------------------------------------------------------
(* core/judge.ts: shouldEvaluate on its own *)

\* The TrustLevel enum in declaration order, most to least trusted.
TrustOrder == <<"user", "tool_verified", "tool_unverified", "agent", "external">>

\* The position of a trust level in that order.
TrustRank(t) == CHOOSE i \in 1..Len(TrustOrder) : TrustOrder[i] = t

\* LLMJudge.shouldEvaluate(context)
ShouldEvaluate ==
    /\ ret.op = "none"
    /\ ret' = [op |-> "shouldEvaluate", id |-> 0,
               val |-> shouldEvaluate(args.layer1Triggered,
                                      args.layer2Similarity,
                                      args.layer2Threshold, args.trustLevel)]
    /\ UNCHANGED <<storeVars, judgeVars, tagVars>>

ShouldEvaluateInit ==
    /\ quarantine = <<>>
    /\ nextId = 1
    /\ clock = 1
    /\ ret = NoCall
    /\ config = NULL
    /\ result = NoResult
    /\ baseline = NoTracker
    /\ provenance = <<>>
    /\ initialized = FALSE
    /\ memories = <<>>
    /\ exemplarEmbeddings = NULL
    /\ db = database(baseline)
    /\ pc = Idle
    /\ args \in [layer1Triggered : BOOLEAN,
                 layer2Similarity : ApplySims,
                 layer2Threshold : ApplyThresholds,
                 trustLevel : TrustLevel]

ShouldEvaluateNext == ShouldEvaluate

SpecShouldEvaluate == ShouldEvaluateInit /\ [][ShouldEvaluateNext]_vars

----------------------------------------------------------------------------
(* Claims *)

Last(seq) == seq[Len(seq)]

Contains(seq, x) == \E i \in 1..Len(seq) : seq[i] = x

\* The request pending on the result a verdict is applied to.
Pending == result.agentJudgeRequest

\* C1: applying a verdict text that parses to SAFE to a result whose pending
\* agent-judge request has L2 similarity >= L2 threshold + 0.10 leaves passed
\* and score as they were and marks the Layer 3 reasoning as ignored.
C1_SafeIgnoredOnStrongSignal ==
    [][(/\ ret'.op = "apply"
        /\ Pending.needsAgentEvaluation
        /\ Pending.layer2Similarity >= Pending.layer2Threshold + 100
        /\ result'.layer3.verdict = "SAFE")
       => (/\ result'.passed = result.passed
           /\ result'.score = result.score
           /\ Head(result'.layer3.reasoning) = "[IGNORED - Strong L2 signal]")]_vars

\* A high-confidence SAFE verdict was ignored on a failed detection whose score
\* it would otherwise have lowered to 0.3.
C1_Witness ==
    /\ ret.op = "apply"
    /\ result.layer3.verdict = "SAFE"
    /\ result.layer3.confidence = 950
    /\ Head(result.layer3.reasoning) = "[IGNORED - Strong L2 signal]"
    /\ Last(result.reason) = "Layer 3 SAFE verdict ignored due to strong Layer 2 signal"
    /\ ~result.passed
    /\ result.score > 300

\* C2: with Layer 2 and Layer 3 disabled, detect returns passed == true for
\* every text and trust level, and when Layer 1 triggered the rationale names
\* "Layer 2 unavailable".
C2_Layer1OnlyPasses ==
    (ret.op = "detect" /\ ~config.enableLayer2 /\ ~config.enableLayer3)
    => (/\ result.passed
        /\ result.layer1.triggered => Contains(result.reason, "Layer 2 unavailable"))

\* C3: a record's status changes only from pending to approved or from pending
\* to rejected; an approved or rejected record never changes status again.
C3_StatusTerminal ==
    [][\A id \in DOMAIN quarantine \cap DOMAIN quarantine' :
          quarantine'[id].status # quarantine[id].status
          => (/\ quarantine[id].status = "pending"
              /\ quarantine'[id].status \in {"approved", "rejected"})]_vars

\* C4: approve or reject on the id of a record already approved or rejected
\* returns false and leaves its status, reviewer and review timestamp unchanged.
C4_ReviewedIsNoOp ==
    [][(/\ ret'.op \in {"approve", "reject"}
        /\ ret'.id \in DOMAIN quarantine
        /\ quarantine[ret'.id].status \in {"approved", "rejected"})
       => (/\ ret'.val = FALSE
           /\ quarantine'[ret'.id].status = quarantine[ret'.id].status
           /\ quarantine'[ret'.id].reviewed_by = quarantine[ret'.id].reviewed_by
           /\ quarantine'[ret'.id].reviewed_at = quarantine[ret'.id].reviewed_at)]_vars

\* C5: after any sequence of add, approve, reject and delete the pending,
\* approved and rejected counts of getCounts sum to getTotal.
C5_CountsSumToTotal ==
    LET counts == getCounts(quarantine)
    IN  counts["pending"] + counts["approved"] + counts["rejected"]
            = getTotal(quarantine)

\* A reviewed record was deleted while a rejected one and nothing else stays.
C5_Witness ==
    /\ ret.op = "delete" /\ ret.val
    /\ getTotal(quarantine) = 1
    /\ getCounts(quarantine)["rejected"] = 1

\* C6: every result produced by detect, by the tagger's anomaly escalation or
\* by applying an agent verdict has 0 <= score <= 1.
C6_ScoreInUnitInterval ==
    ret.op \in {"detect", "tag", "apply"}
    => (0 <= result.score /\ result.score <= 1000)

\* A text with six Layer 1 matches (0.5 + 0.6 before the cap) was tagged and a
\* DANGEROUS verdict applied to its pending request: the score is exactly 1.
C6_Witness ==
    /\ ret.op = "apply"
    /\ result.layer1.patterns = 6
    /\ result.anomaly.present
    /\ result.layer3.verdict = "DANGEROUS"
    /\ Last(result.reason) = "Layer 3 agent judge"
    /\ result.score = 1000

\* C7: when Layer 2 runs with best similarity below the threshold and Layer 3
\* does not return SUSPICIOUS or DANGEROUS, detect returns passed == true even
\* though Layer 1 matched.
C7_Layer1NeverRejectsAlone ==
    (/\ ret.op = "detect"
     /\ result.layer1.triggered
     /\ config.enableLayer2 /\ embeddingClient(config)
     /\ ~result.layer2.triggered
     /\ result.layer3.verdict \notin {"SUSPICIOUS", "DANGEROUS"})
    => result.passed

\* A layer of the result signalled.
Signalled(r) ==
    \/ r.layer1.triggered
    \/ r.layer2.triggered
    \/ r.layer3.evaluated /\ r.layer3.verdict \in {"SUSPICIOUS", "DANGEROUS"}
    \/ r.anomaly.present /\ r.anomaly.score >= 700 /\ ~r.anomaly.inLearningPeriod

\* C8: every result with passed == false returned by detect or by tag has a
\* signalling layer: Layer 1, Layer 2, a SUSPICIOUS or DANGEROUS Layer 3
\* verdict, or an anomaly score >= 0.7 outside the learning period.
C8_FailHasSignal ==
    (ret.op \in {"detect", "tag"} /\ ~result.passed) => Signalled(result)

\* tag failed a submission on the anomaly score alone.
C8_Witness ==
    /\ ret.op = "tag" /\ ~ret.val
    /\ ~result.passed
    /\ ~result.layer1.triggered /\ ~result.layer2.triggered
    /\ ~result.layer3.evaluated
    /\ result.anomaly.score >= 700
    /\ quarantine[ret.id].status = "pending"

\* C9: shouldApplyLayer3Verdict returns false exactly when the verdict is SAFE
\* and the L2 similarity is >= the L2 threshold + 0.10.
C9_ShouldApplyExactly ==
    ret.op = "shouldApply"
    => (ret.val = FALSE
        <=> (/\ args.layer3Verdict = "SAFE"
             /\ args.layer2Similarity >= args.layer2Threshold + 100))

\* The call returned false for SAFE at exactly threshold + 0.10.
C9_Witness ==
    /\ ret.op = "shouldApply" /\ ret.val = FALSE
    /\ args.layer3Verdict = "SAFE"
    /\ args.layer2Similarity = args.layer2Threshold + 100

\* C10: applying a verdict that parses to DANGEROUS or SUSPICIOUS to a result
\* with a pending agent-judge request yields passed == false, with score >= 0.9
\* for DANGEROUS and score >= 0.7 for SUSPICIOUS.
C10_RiskVerdictAlwaysApplies ==
    [][(/\ ret'.op = "apply"
        /\ Pending.needsAgentEvaluation
        /\ result'.layer3.verdict \in {"DANGEROUS", "SUSPICIOUS"})
       => (/\ ~result'.passed
           /\ result'.layer3.verdict = "DANGEROUS" => result'.score >= 900
           /\ result'.layer3.verdict = "SUSPICIOUS" => result'.score >= 700)]_vars

\* A detection that had passed every layer was failed by a DANGEROUS verdict.
C10_Witness ==
    /\ ret.op = "apply"
    /\ result.layer3.verdict = "DANGEROUS"
    /\ result.reason = <<"Content passed all detection layers", "Layer 3 agent judge">>
    /\ ~result.passed
    /\ result.score = 900

FieldNames == {"VERDICT:", "CONFIDENCE:", "REASONING:"}

HasField(response, key) == \E i \in 1..Len(response) : response[i].key = key

\* The three fields in order, a verdict of the three, a confidence in [0, 1].
WellFormed(response) ==
    /\ Len(response) = 3
    /\ response[1].key = "VERDICT:" /\ response[1].val \in Verdicts
    /\ response[2].key = "CONFIDENCE:"
    /\ ~parseFloat(response[2].val).nan
    /\ parseFloat(response[2].val).num \in 0..1000
    /\ response[3].key = "REASONING:"

\* C11: for every response that lacks one of the fields VERDICT, CONFIDENCE,
\* REASONING the parser returns verdict SUSPICIOUS with confidence 0.5, and
\* for a well-formed response it returns exactly the stated verdict,
\* confidence and reasoning.
C11_MissingFieldGivesDefault ==
    ret.op = "parse"
    => (/\ (\E k \in FieldNames : ~HasField(args.response, k))
            => (ret.val.verdict = "SUSPICIOUS" /\ ret.val.confidence = 500)
        /\ WellFormed(args.response)
            => ret.val = [verdict |-> args.response[1].val,
                          confidence |-> parseFloat(args.response[2].val).num,
                          reasoning |-> <<args.response[3].val>>])

\* C12: if the embedding provider fails during detect, while loading the
\* exemplar embeddings or while embedding the submitted text, detect does not
\* throw: it returns passed == true with a rationale noting that Layer 2 was
\* unavailable.
C12_EmbeddingFailureDegrades ==
    (/\ ret.op = "detect"
     /\ \/ ~args.wasInitialized /\ ~args.embedding.loadOk
        \/ ~args.embedding.embedOk)
    => (/\ ret.val
        /\ result.passed
        /\ Contains(result.reason, "Layer 2 unavailable"))

\* C13: if the judge call fails, times out or returns an empty response,
\* LLMJudge.evaluate returns verdict SUSPICIOUS with confidence 0.5 instead of
\* throwing, and detect completes with a result for that submission.
C13_JudgeFailureIsSuspicious ==
    (/\ ret.op = "detect"
     /\ args.judged
     /\ args.judge.kind \in {"null", "error"} \/ args.judge.content = <<>>)
    => (/\ ret.val
        /\ result.layer3.evaluated
        /\ result.layer3.verdict = "SUSPICIOUS"
        /\ result.layer3.confidence = 500
        /\ ~result.passed)

\* The judge's call was rejected on a borderline submission without a Layer 1
\* match, and detect returned a failed result with the conservative verdict.
C13_Witness ==
    /\ ret.op = "detect" /\ ret.val
    /\ args.judged /\ args.judge.kind = "error"
    /\ args.n = 0
    /\ ~result.layer2.triggered
    /\ result.layer3.verdict = "SUSPICIOUS"
    /\ result.layer3.confidence = 500
    /\ ~result.passed
    /\ result.score = 700

\* C14: while fewer than the minimum number of days have elapsed since the
\* baseline start or fewer than the minimum number of submissions have been
\* recorded, computeAnomaly returns score 0 and reports the learning period,
\* whatever signals the submission would raise.
C14_LearningPeriodScoresZero ==
    [][(/\ ret'.op = "tag"
        /\ baseline.attached
        /\ \/ clock - baseline.startDate < baseline.config.learningPeriodDays
           \/ baseline.totalMemories < baseline.config.minMemoriesForLearning)
       => (/\ result'.anomaly.present
           /\ result'.anomaly.score = 0
           /\ result'.anomaly.inLearningPeriod
           /\ result'.anomaly.signals = <<>>)]_vars

\* The learning days had elapsed but this was the tracker's first submission:
\* an instruction with a link to an unseen domain from an unseen source, which
\* scored 0.
C14_Witness ==
    /\ ret.op = "tag"
    /\ baseline.attached
    /\ clock - baseline.startDate >= baseline.config.learningPeriodDays
    /\ baseline.totalMemories = 1
    /\ "evil.example" \in DOMAIN baseline.domainCounts
    /\ "web_scrape" \in DOMAIN baseline.sourceCounts
    /\ result.layer1.patterns = 6
    /\ result.anomaly.inLearningPeriod
    /\ result.anomaly.score = 0

\* C15: a tag call whose verdict is rejected adds exactly one new pending
\* quarantine record under a fresh id, a tag call whose verdict is passing
\* adds none, and in both cases every existing record stays as it was, also
\* when the text is the same as that of an existing record.
C15_OneRecordPerRejection ==
    [][ret'.op = "tag"
       => (/\ \A i \in DOMAIN quarantine :
                i \in DOMAIN quarantine' /\ quarantine'[i] = quarantine[i]
           /\ IF ~result'.passed
              THEN /\ DOMAIN quarantine' \ DOMAIN quarantine = {ret'.id}
                   /\ quarantine'[ret'.id].status = "pending"
                   /\ ~ret'.val
              ELSE /\ DOMAIN quarantine' = DOMAIN quarantine
                   /\ ret'.val)]_vars

\* The same text was rejected twice and sits in two pending records.
C15_Witness ==
    /\ ret.op = "tag" /\ ~ret.val
    /\ ret.id = 2
    /\ DOMAIN quarantine = {1, 2}
    /\ quarantine[1].text = quarantine[2].text
    /\ quarantine[1].status = "pending"
    /\ quarantine[2].status = "pending"

\* C16: a write whose verdict is allowed appends the submission's text to the
\* memory store; a write whose verdict is rejected leaves the memory store as
\* it was and returns the id of the new quarantine record.
C16_OnlyAllowedAreWritten ==
    [][ret'.op = "write"
       => IF result'.passed
          THEN /\ ret'.val
               /\ Len(memories') = Len(memories) + 1
               /\ SubSeq(memories', 1, Len(memories)) = memories
          ELSE /\ ~ret'.val
               /\ memories' = memories
               /\ ret'.id \in DOMAIN quarantine' \ DOMAIN quarantine]_vars

\* After an allowed write, a rejected write returned the id of the record
\* quarantining its text, and that text is nowhere in the memory store.
C16_Witness ==
    /\ ret.op = "write" /\ ~ret.val
    /\ Len(memories) = 1
    /\ quarantine[ret.id].text = "attack"
    /\ \A i \in 1..Len(memories) : memories[i].text # "attack"

\* C17: every submission that is classified, by the tagger or by the scan
\* command, produces exactly one provenance record, whether it passes or is
\* rejected.
C17_OneProvenancePerSubmission ==
    [][ret'.op \in {"tag", "scan", "write"}
       => (/\ Len(provenance') = Len(provenance) + 1
           /\ SubSeq(provenance', 1, Len(provenance)) = provenance)]_vars

\* C18: with agent-as-judge enabled, detect on a text that triggers Layer 1
\* while Layer 2 does not confirm it returns passed == true with a pending
\* agent-judge request and a rationale saying it awaits agent-judge
\* evaluation; with no Layer 1 match, or with agent-as-judge disabled, the
\* result carries no pending request.
C18_AgentJudgeRequested ==
    ret.op = "detect"
    => (/\ (/\ args.useAgentJudge
            /\ result.layer1.triggered
            /\ ~result.layer2.triggered
            /\ ~result.layer3.evaluated)
           => (/\ result.passed
               /\ result.agentJudgeRequest.needsAgentEvaluation
               /\ Contains(result.reason, "awaiting Agent Judge evaluation"))
        /\ (~args.useAgentJudge \/ ~result.layer1.triggered)
           => ~result.agentJudgeRequest.needsAgentEvaluation)

\* C20: the thresholds the detector applies are ordered by trust: external <=
\* agent and tool_unverified, each <= tool_verified <= user.
C20_ThresholdsOrderedByTrust ==
    ret.op \in {"new", "detect"}
    => (/\ getThreshold(config, "external") <= getThreshold(config, "agent")
        /\ getThreshold(config, "external")
              <= getThreshold(config, "tool_unverified")
        /\ getThreshold(config, "agent") <= getThreshold(config, "tool_verified")
        /\ getThreshold(config, "tool_unverified")
              <= getThreshold(config, "tool_verified")
        /\ getThreshold(config, "tool_verified") <= getThreshold(config, "user"))

\* C19: applying an agent verdict to a result that has no pending agent-judge
\* request, a result to which a verdict was already applied included, leaves
\* passed, score and rationale unchanged.
C19_ApplyWithoutRequestKeepsVerdict ==
    [][(ret'.op = "apply" /\ ~Pending.needsAgentEvaluation)
       => (/\ result'.passed = result.passed
           /\ result'.score = result.score
           /\ result'.reason = result.reason
           /\ ~result'.agentJudgeRequest.needsAgentEvaluation)]_vars

\* A DANGEROUS verdict had failed a passing detection; a second response, SAFE
\* with confidence 0.95, was then applied and changed only the Layer 3 field.
C19_Witness ==
    /\ ret.op = "apply"
    /\ result.reason = <<"Content passed all detection layers", "Layer 3 agent judge">>
    /\ ~result.passed
    /\ result.score = 900
    /\ result.layer3.verdict = "SAFE"
    /\ result.layer3.confidence = 950
    /\ ~Pending.needsAgentEvaluation

\* C20 as amended: a detector constructed without per-trust overrides applies
\* thresholds ordered by trust: external <= agent and tool_unverified, each <=
\* tool_verified <= user.
C20_DefaultThresholdsOrdered ==
    (ret.op \in {"new", "detect"} /\ DOMAIN args.trustThresholds = {})
    => (/\ getThreshold(config, "external") <= getThreshold(config, "agent")
        /\ getThreshold(config, "external")
              <= getThreshold(config, "tool_unverified")
        /\ getThreshold(config, "agent") <= getThreshold(config, "tool_verified")
        /\ getThreshold(config, "tool_unverified")
              <= getThreshold(config, "tool_verified")
        /\ getThreshold(config, "tool_verified") <= getThreshold(config, "user"))

\* A detector without overrides ran Layer 2 and a similarity of 0.80 triggered
\* it: at or above the threshold of its trust level, below that of the more
\* trusted ones.
C20_Witness ==
    /\ ret.op = "detect"
    /\ DOMAIN args.trustThresholds = {}
    /\ result.layer2.triggered
    /\ result.layer2.similarity = 800
    /\ getThreshold(config, "tool_unverified") <= 800
    /\ 800 < getThreshold(config, "tool_verified")

\* C21: changing the detector's sensitivity setting (similarityThreshold)
\* shifts the threshold Layer 2 uses for every trust level by the same amount:
\* without per-trust overrides each threshold is its default plus the offset
\* of similarityThreshold from DEFAULT_SIMILARITY_THRESHOLD.
C21_SensitivityShiftsThresholds ==
    (ret.op \in {"new", "detect"} /\ DOMAIN args.trustThresholds = {})
    => \A t \in TrustLevel :
          getThreshold(config, t) - DEFAULT_TRUST_THRESHOLDS[t]
             = args.similarityThreshold - DEFAULT_SIMILARITY_THRESHOLD

\* C22: Layer 3 is evaluated only for borderline cases: in a detect that
\* reached Layer 2 with a judge configured, the judge is called exactly when
\* the L2 similarity lies in [threshold - 0.10, threshold), or Layer 1
\* triggered, the similarity is below that band and the trust level is
\* external or tool_unverified; it is never called when Layer 2 triggered.
C22_JudgeOnlyOnBorderline ==
    (ret.op = "detect" /\ ret.val /\ RunsLayer2(config, args.n, args.trustLevel))
    => LET sim == args.embedding.similarity
           threshold == getThreshold(config, args.trustLevel)
           borderline == threshold - 100 <= sim /\ sim < threshold
           layer1Only == /\ args.n > 0
                         /\ sim < threshold - 100
                         /\ args.trustLevel \in {"external", "tool_unverified"}
       IN  /\ args.judged
              <=> (/\ config.enableLayer3 /\ llmJudge(config)
                   /\ borderline \/ layer1Only)
           /\ result.layer3.evaluated <=> args.judged
           /\ result.layer2.triggered => ~args.judged

\* The judge was called for a text from a source that is not low-trust whose
\* similarity is exactly the threshold minus 0.10.
C22_Witness ==
    /\ ret.op = "detect" /\ ret.val
    /\ args.judged
    /\ args.trustLevel \notin {"external", "tool_unverified"}
    /\ args.embedding.similarity = getThreshold(config, args.trustLevel) - 100
    /\ result.layer3.evaluated

\* C23: quick-scan mode never exits with a non-zero code for scanned content,
\* whether or not Layer 1 patterns match and whether or not JSON output is
\* requested.
C23_QuickScanExitsZero ==
    ret.op = "quick" => ret.id = 0

\* C24: when analysis throws an unexpected exception, the caller treats the
\* content as blocked unless fail-open was explicitly configured: the scan
\* command blocks (not allowed, exit code 1) unless --fail-open was given
\* without --fail-closed, and the memory hook, which has no such option,
\* blocks.
C24_ErrorBlocksUnlessFailOpen ==
    /\ ret.op = "scan_error"
       => /\ ret.val <=> (args.failOpen /\ ~args.failClosed)
          /\ ret.id = IF ret.val THEN 0 ELSE 1
    /\ ret.op = "onWrite_error" => ~ret.val

\* C24 (amended): when analysis throws in the scan command, the content is
\* blocked (not allowed, exit code 1) unless --fail-open was given without
\* --fail-closed; MemoryHook.onWrite has no such option and allows the write
\* when analysis throws.
C24_ScanErrorBlocksUnlessFailOpen ==
    /\ ret.op = "scan_error"
       => /\ ret.val <=> (args.failOpen /\ ~args.failClosed)
          /\ ret.id = IF ret.val THEN 0 ELSE 1
    /\ ret.op = "onWrite_error" => ret.val

\* A scan given both --fail-open and --fail-closed threw and exited 1.
C24_Witness ==
    /\ ret.op = "scan_error"
    /\ args.failOpen /\ args.failClosed
    /\ ~ret.val /\ ret.id = 1

\* C25: every submission whose final verdict is rejected has a quarantine
\* record holding its text: a step that rejects a submission, in the tagger
\* or by applying a SUSPICIOUS or DANGEROUS agent verdict to a submission
\* that had passed, appends one quarantine record.
C25_RejectedIsQuarantined ==
    [][(/\ ret'.op \in {"onWrite", "verdict"}
        /\ ~ret'.val
        /\ ret'.op = "verdict" => ret.val)
       => (/\ Len(quarantine') = Len(quarantine) + 1
           /\ SubSeq(quarantine', 1, Len(quarantine)) = quarantine)]_vars

\* C26: the baseline is updated by every tagged submission, pass or fail and
\* also during the learning period: a tag step on a submission from source S
\* counts it (total and per-source count grow by one), so S is a known source
\* afterwards, and a submission from a source tagged before raises no
\* new-source signal.
C26_EveryTagUpdatesBaseline ==
    [][(ret'.op = "tag" /\ baseline.attached)
       => LET S == Last(provenance').source
              before == IF S \in DOMAIN baseline.sourceCounts
                        THEN baseline.sourceCounts[S] ELSE 0
          IN  /\ S \in DOMAIN baseline'.sourceCounts
              /\ baseline'.sourceCounts[S] = before + 1
              /\ baseline'.totalMemories = baseline.totalMemories + 1
              /\ (\E i \in 1..Len(provenance) : provenance[i].source = S)
                 => \A k \in 1..Len(result'.anomaly.signals) :
                       result'.anomaly.signals[k].type # "new_source"]_vars

\* After the learning period, two submissions from web_scrape were rejected
\* and the second raised no new-source signal.
C26_Witness ==
    /\ ret.op = "tag" /\ ~ret.val
    /\ baseline.attached
    /\ Len(provenance) = 2 /\ Len(quarantine) = 2
    /\ provenance[1].source = "web_scrape"
    /\ provenance[2].source = "web_scrape"
    /\ result.anomaly.present /\ ~result.anomaly.inLearningPeriod
    /\ \A k \in 1..Len(result.anomaly.signals) :
          result.anomaly.signals[k].type # "new_source"

\* C27: if the process crashes at any point during recordMemory, the
\* persisted baseline stays consistent: when the process is started again,
\* the persisted total submission count equals the sum of the persisted
\* per-source counts.
C27_CrashKeepsBaselineConsistent ==
    ret.op = "restart" => db.state.totalMemories = SumCounts(db.sources)

\* C28: the exemplar embeddings are loaded from the provider at most once per
\* detector and are never replaced afterwards, even when several detect calls
\* start before initialization has completed: no step assigns
\* exemplarEmbeddings once a load has filled it.
C28_ExemplarsLoadedOnce ==
    [][exemplarEmbeddings # NULL
       => exemplarEmbeddings' = exemplarEmbeddings]_vars

\* C29: Layer 3 scrutiny is monotone in trust: when shouldEvaluate sends a
\* submission to Layer 3 at some trust level, it also sends it, for the same
\* Layer 1 result, L2 similarity and L2 threshold, at every less-trusted level
\* in the order USER, TOOL_VERIFIED, TOOL_UNVERIFIED, AGENT, EXTERNAL.
C29_ScrutinyMonotoneInTrust ==
    (ret.op = "shouldEvaluate" /\ ret.val)
    => \A t \in TrustLevel :
          TrustRank(t) > TrustRank(args.trustLevel)
          => shouldEvaluate(args.layer1Triggered, args.layer2Similarity,
                            args.layer2Threshold, t)

\* C30: with topic tracking disabled (the default configuration),
\* computeAnomaly never returns a score of 0.7 or more, so the anomaly check
\* never turns a passing submission into a failed one: the result of a tag
\* carries an anomaly score below 0.7 and no anomaly in its rationale.
C30_NoEscalationWithoutTopics ==
    (ret.op = "tag" /\ baseline.attached /\ ~baseline.config.enableTopicTracking)
    => /\ result.anomaly.score < 700
       /\ ~Contains(result.reason, "Anomaly")

\* Past the learning period and without topic tracking, a submission that
\* raised anomaly signals passed.
C30_Witness ==
    /\ ret.op = "tag" /\ ret.val
    /\ baseline.attached /\ ~baseline.config.enableTopicTracking
    /\ result.anomaly.present /\ ~result.anomaly.inLearningPeriod
    /\ Len(result.anomaly.signals) > 0
    /\ result.anomaly.score > 0

====
